---- MODULE Spec2Model ----
(***************************************************************************)
(* go-players-data: the record-normalization, filtering, grouping and      *)
(* bounded-concurrency dispatch pipeline (Handler, mailByCluster,          *)
(* fetcher.Data, parser.Players, criteria.Filter, cluster.ByStoreNumber).  *)
(*                                                                         *)
(* Go strings are modelled as sequences of one-character strings, so that  *)
(* prefix tests, splitting and number parsing are computed, not assumed.   *)
(***************************************************************************)
EXTENDS Integers, Sequences, FiniteSets, TLC

(***************************************************************************)
(* Bounds of the model.                                                    *)
(***************************************************************************)
\* longest payload (number of array elements) a Handler run fetches
MaxRecords == 2
\* largest value of cfg.App.MaxGoroutines a Handler run is configured with
MaxPermits == 2
\* longest batch handed to parser.Players in the parser specification
MaxBatch == 2

\* the longest tag list handed to parseTags on its own
MaxTags == 3

\* the most pieces a raw MAC address is put together from
MaxPieces == 4

\* the most players handed to Filter on its own
MaxPlayers == 2

\* the most players handed to ByStoreNumber on its own
MaxGrouped == 3

(***************************************************************************)
(* Strings.                                                                *)
(***************************************************************************)
Digits == {"0", "1", "2", "3", "4", "5", "6", "7", "8", "9"}

DigitVal(c) ==
  CASE c = "0" -> 0 [] c = "1" -> 1 [] c = "2" -> 2 [] c = "3" -> 3
    [] c = "4" -> 4 [] c = "5" -> 5 [] c = "6" -> 6 [] c = "7" -> 7
    [] c = "8" -> 8 [] c = "9" -> 9

\* time.isDigit(s, i), with the model's 1-based index
IsDigit(s, i) == i >= 1 /\ i <= Len(s) /\ s[i] \in Digits

\* s[i:] of Go for the 1-based index i (i = Len(s)+1 gives the empty string)
Drop(s, i) == IF i > Len(s) THEN << >> ELSE SubSeq(s, i, Len(s))

\* strings.HasPrefix
HasPrefix(s, prefix) ==
  /\ Len(prefix) <= Len(s)
  /\ \A i \in 1..Len(prefix) : s[i] = prefix[i]

\* strings.TrimPrefix
TrimPrefix(s, prefix) == IF HasPrefix(s, prefix) THEN Drop(s, Len(prefix) + 1) ELSE s

RECURSIVE SplitFrom(_, _, _, _)
SplitFrom(s, sep, i, cur) ==
  IF i > Len(s) THEN << cur >>
  ELSE IF s[i] = sep THEN << cur >> \o SplitFrom(s, sep, i + 1, << >>)
  ELSE SplitFrom(s, sep, i + 1, Append(cur, s[i]))

\* strings.Split(s, sep) for a one-character separator: never empty, and the
\* empty string splits into one empty segment
Split(s, sep) == SplitFrom(s, sep, 1, << >>)

RECURSIVE DecimalFrom(_, _, _)
DecimalFrom(s, i, n) ==
  IF i > Len(s) THEN n ELSE DecimalFrom(s, i + 1, n * 10 + DigitVal(s[i]))

\* strconv.Atoi on a string shorter than 19 bytes (its fast path): an
\* optional sign, then at least one character, all of them decimal digits
AtoiOK(s) ==
  LET signed == Len(s) > 0 /\ s[1] \in {"-", "+"}
      body   == IF signed THEN Drop(s, 2) ELSE s
  IN  /\ Len(s) > 0
      /\ Len(body) >= 1
      /\ \A i \in 1..Len(body) : body[i] \in Digits

AtoiVal(s) ==
  LET signed == Len(s) > 0 /\ s[1] \in {"-", "+"}
      body   == IF signed THEN Drop(s, 2) ELSE s
      n      == DecimalFrom(body, 1, 0)
  IN  IF s[1] = "-" THEN 0 - n ELSE n

(***************************************************************************)
(* time.Parse(time.DateTime, value): the layout "2006-01-02 15:04:05".     *)
(***************************************************************************)
\* time.getnum(s, fixed): one or two leading digits; a fixed field needs two
GetnumOK(s, fixed) == IsDigit(s, 1) /\ (fixed => IsDigit(s, 2))

GetnumLen(s) == IF IsDigit(s, 2) THEN 2 ELSE 1

GetnumVal(s) ==
  IF IsDigit(s, 2) THEN DigitVal(s[1]) * 10 + DigitVal(s[2]) ELSE DigitVal(s[1])

\* time.skip(value, prefix) for a one-character literal other than a space
SkipOK(s, ch) == Len(s) > 0 /\ s[1] = ch

RECURSIVE CutSpace(_)
\* time.cutspace: drop the leading spaces
CutSpace(s) == IF Len(s) > 0 /\ s[1] = " " THEN CutSpace(Drop(s, 2)) ELSE s

\* time.skip(value, " "): an empty value passes, any run of spaces is eaten
SkipSpaceOK(s) == ~(Len(s) > 0 /\ s[1] # " ")

RECURSIVE DigitsEnd(_, _)
\* the first index >= i of s that holds no digit
DigitsEnd(s, i) == IF IsDigit(s, i) THEN DigitsEnd(s, i + 1) ELSE i

\* a fractional second is accepted after the seconds although the layout has none
CutFraction(s) ==
  IF Len(s) >= 2 /\ s[1] \in {".", ","} /\ IsDigit(s, 2)
  THEN Drop(s, DigitsEnd(s, 3))
  ELSE s

isLeap(year) == year % 4 = 0 /\ (year % 100 # 0 \/ year % 400 = 0)

daysIn(month, year) ==
  IF month = 2 THEN (IF isLeap(year) THEN 29 ELSE 28)
  ELSE IF month \in {4, 6, 9, 11} THEN 30 ELSE 31

RECURSIVE DaysBeforeMonth(_, _)
DaysBeforeMonth(month, year) ==
  IF month <= 1 THEN 0
  ELSE DaysBeforeMonth(month - 1, year) + daysIn(month - 1, year)

\* days from 0000-01-01 (proleptic Gregorian calendar) to the given date
AbsDay(year, month, day) ==
  365 * year + ((year + 3) \div 4) - ((year + 99) \div 100)
    + ((year + 399) \div 400) + DaysBeforeMonth(month, year) + (day - 1)

\* The zero time.Time, returned beside a parse error
ZeroTime == [day |-> 0, sec |-> 0]

\* time.Parse(time.DateTime, v): [ok, t], t the instant as (day, second of day).
\* The nanoseconds of an accepted fraction are below the model's resolution.
ParseDateTime(v) ==
  LET yearOK == Len(v) >= 4 /\ \A i \in 1..4 : IsDigit(v, i)
      year   == DecimalFrom(SubSeq(v, 1, 4), 1, 0)
      v1     == Drop(v, 5)
      v2     == Drop(v1, 2)
      monOK  == SkipOK(v1, "-") /\ GetnumOK(v2, TRUE)
      month  == GetnumVal(v2)
      v3     == Drop(v2, 3)
      v4     == Drop(v3, 2)
      dayOK  == SkipOK(v3, "-") /\ GetnumOK(v4, TRUE)
      day    == GetnumVal(v4)
      v5     == Drop(v4, 3)
      v6     == CutSpace(v5)
      hourOK == SkipSpaceOK(v5) /\ GetnumOK(v6, FALSE)
      hour   == GetnumVal(v6)
      v7     == Drop(v6, GetnumLen(v6) + 1)
      v8     == Drop(v7, 2)
      minOK  == SkipOK(v7, ":") /\ GetnumOK(v8, TRUE)
      min    == GetnumVal(v8)
      v9     == Drop(v8, 3)
      v10    == Drop(v9, 2)
      secOK  == SkipOK(v9, ":") /\ GetnumOK(v10, TRUE)
      sec    == GetnumVal(v10)
      v11    == CutFraction(Drop(v10, 3))
      ok     == /\ yearOK
                /\ monOK /\ month >= 1 /\ month <= 12
                /\ dayOK
                /\ hourOK /\ hour < 24
                /\ minOK /\ min < 60
                /\ secOK /\ sec < 60
                /\ Len(v11) = 0
                /\ day >= 1 /\ day <= daysIn(month, year)
  IN  IF ok
      THEN [ok |-> TRUE,
            t  |-> [day |-> AbsDay(year, month, day),
                    sec |-> hour * 3600 + min * 60 + sec]]
      ELSE [ok |-> FALSE, t |-> ZeroTime]

(***************************************************************************)
(* model.PlayerReceive, model.Player and the parser (package player).      *)
(* The fields that are copied from the raw record and read by nothing      *)
(* (PlayerName, ScheduleName, Serial, IP, Type, Model, Version) are left   *)
(* out of both records.                                                    *)
(***************************************************************************)
\* The sentinel errors of the parser, and Go's nil error
ErrNil == "nil"
ErrParseID == "error parsing id"
ErrParseTZ == "error parsing time zone"
ErrParseLastOnline == "error parsing last online"

\* One model.PlayerReceive
PlayerReceive(number, id, groupName, tags, tz, lastOnline, mac) ==
  [Number |-> number, ID |-> id, GroupName |-> groupName, Tags |-> tags,
   TimeZoneDiff |-> tz, LastOnline |-> lastOnline, MAC |-> mac]

\* A nil *model.PlayerReceive is the element [nil |-> TRUE]; a pointer to a
\* record is [nil |-> FALSE, raw |-> the record]
NilRaw == [nil |-> TRUE, raw |-> PlayerReceive(0, << >>, << >>, << >>, << >>, << >>, << >>)]

PtrRaw(r) == [nil |-> FALSE, raw |-> r]

HexLower == {"a", "b", "c", "d", "e", "f"}

HexUpper == {"A", "B", "C", "D", "E", "F"}

IsHex(c) == c \in Digits \/ c \in HexLower \/ c \in HexUpper

\* strings.ToUpper on one character of a string of hexadecimal digits
ToUpperHex(c) ==
  CASE c = "a" -> "A" [] c = "b" -> "B" [] c = "c" -> "C"
    [] c = "d" -> "D" [] c = "e" -> "E" [] c = "f" -> "F"
    [] OTHER -> c

\* strings.Map keeping the hexadecimal digits
RECURSIVE KeepHex(_)
KeepHex(s) ==
  IF Len(s) = 0 THEN << >>
  ELSE IF IsHex(s[1]) THEN << s[1] >> \o KeepHex(Drop(s, 2))
  ELSE KeepHex(Drop(s, 2))

\* strings.ToLower on one character of a string of hexadecimal digits
ToLowerHex(c) ==
  CASE c = "A" -> "a" [] c = "B" -> "b" [] c = "C" -> "c"
    [] c = "D" -> "d" [] c = "E" -> "e" [] c = "F" -> "f"
    [] OTHER -> c

\* normalizeMAC were it to leave out the final strings.ToUpper
normalizeMACLower(macRaw) ==
  LET mac == KeepHex(macRaw)
  IN  IF Len(macRaw) = 0 THEN << >>
      ELSE IF Len(mac) # 12 THEN << >>
      ELSE [i \in 1..17 |->
              IF i % 3 = 0 THEN ":"
              ELSE ToLowerHex(mac[2 * ((i - 1) \div 3) + ((i - 1) % 3) + 1])]

\* parser.normalizeMAC: the hexadecimal digits are kept and lower-cased, a
\* colon goes between the pairs, and the whole is upper-cased
normalizeMAC(macRaw) ==
  LET mac == KeepHex(macRaw)
  IN  IF Len(macRaw) = 0 THEN << >>
      ELSE IF Len(mac) # 12 THEN << >>
      ELSE [i \in 1..17 |->
              IF i % 3 = 0 THEN ":"
              ELSE ToUpperHex(ToLowerHex(
                     mac[2 * ((i - 1) \div 3) + ((i - 1) % 3) + 1]))]

\* parseTags on one tag were it to assign the test store like any other
parseTagTestStoreAssigned(tag, storeNumber, companyName, p) ==
  LET numberTag      == TrimPrefix(tag, p.storeNumberPrefix)
      companyNameTag == TrimPrefix(tag, p.companyNamePrefix)
  IN  IF HasPrefix(tag, p.storeNumberPrefix)
      THEN IF Len(numberTag) = 0 \/ ~AtoiOK(numberTag)
           THEN [StoreNumber |-> storeNumber, CompanyName |-> companyName]
           ELSE [StoreNumber |-> AtoiVal(numberTag), CompanyName |-> companyName]
      ELSE IF HasPrefix(tag, p.companyNamePrefix)
      THEN IF Len(companyNameTag) = 0
           THEN [StoreNumber |-> storeNumber, CompanyName |-> companyName]
           ELSE IF companyNameTag \in DOMAIN p.companies
           THEN [StoreNumber |-> storeNumber,
                 CompanyName |-> p.companies[companyNameTag]]
           ELSE [StoreNumber |-> storeNumber, CompanyName |-> companyNameTag]
      ELSE [StoreNumber |-> storeNumber, CompanyName |-> companyName]

\* parseTags on one tag were it to keep a company name once it has one
parseTagFirstCompany(tag, storeNumber, companyName, p) ==
  LET numberTag      == TrimPrefix(tag, p.storeNumberPrefix)
      companyNameTag == TrimPrefix(tag, p.companyNamePrefix)
  IN  IF HasPrefix(tag, p.storeNumberPrefix)
      THEN IF Len(numberTag) = 0 \/ ~AtoiOK(numberTag)
                \/ AtoiVal(numberTag) = p.storeTestNumber
           THEN [StoreNumber |-> storeNumber, CompanyName |-> companyName]
           ELSE [StoreNumber |-> AtoiVal(numberTag), CompanyName |-> companyName]
      ELSE IF HasPrefix(tag, p.companyNamePrefix)
      THEN IF Len(companyNameTag) = 0 \/ Len(companyName) # 0
           THEN [StoreNumber |-> storeNumber, CompanyName |-> companyName]
           ELSE IF companyNameTag \in DOMAIN p.companies
           THEN [StoreNumber |-> storeNumber,
                 CompanyName |-> p.companies[companyNameTag]]
           ELSE [StoreNumber |-> storeNumber, CompanyName |-> companyNameTag]
      ELSE [StoreNumber |-> storeNumber, CompanyName |-> companyName]

\* parseTags on one tag were a store tag without a number to reset the store
parseTagNoNumberResets(tag, storeNumber, companyName, p) ==
  LET numberTag      == TrimPrefix(tag, p.storeNumberPrefix)
      companyNameTag == TrimPrefix(tag, p.companyNamePrefix)
  IN  IF HasPrefix(tag, p.storeNumberPrefix)
      THEN IF Len(numberTag) = 0 \/ ~AtoiOK(numberTag)
           THEN [StoreNumber |-> 0, CompanyName |-> companyName]
           ELSE IF AtoiVal(numberTag) = p.storeTestNumber
           THEN [StoreNumber |-> storeNumber, CompanyName |-> companyName]
           ELSE [StoreNumber |-> AtoiVal(numberTag), CompanyName |-> companyName]
      ELSE IF HasPrefix(tag, p.companyNamePrefix)
      THEN IF Len(companyNameTag) = 0
           THEN [StoreNumber |-> storeNumber, CompanyName |-> companyName]
           ELSE IF companyNameTag \in DOMAIN p.companies
           THEN [StoreNumber |-> storeNumber,
                 CompanyName |-> p.companies[companyNameTag]]
           ELSE [StoreNumber |-> storeNumber, CompanyName |-> companyNameTag]
      ELSE [StoreNumber |-> storeNumber, CompanyName |-> companyName]

\* parseTags on one tag were the company-name case the first of the switch
parseTagCompanyFirst(tag, storeNumber, companyName, p) ==
  LET numberTag      == TrimPrefix(tag, p.storeNumberPrefix)
      companyNameTag == TrimPrefix(tag, p.companyNamePrefix)
  IN  IF HasPrefix(tag, p.companyNamePrefix)
      THEN IF Len(companyNameTag) = 0
           THEN [StoreNumber |-> storeNumber, CompanyName |-> companyName]
           ELSE IF companyNameTag \in DOMAIN p.companies
           THEN [StoreNumber |-> storeNumber,
                 CompanyName |-> p.companies[companyNameTag]]
           ELSE [StoreNumber |-> storeNumber, CompanyName |-> companyNameTag]
      ELSE IF HasPrefix(tag, p.storeNumberPrefix)
      THEN IF Len(numberTag) = 0 \/ ~AtoiOK(numberTag)
                \/ AtoiVal(numberTag) = p.storeTestNumber
           THEN [StoreNumber |-> storeNumber, CompanyName |-> companyName]
           ELSE [StoreNumber |-> AtoiVal(numberTag), CompanyName |-> companyName]
      ELSE [StoreNumber |-> storeNumber, CompanyName |-> companyName]

\* parser.parseTags on one tag: the store number and company name after it
parseTag(tag, storeNumber, companyName, p) ==
  LET numberTag      == TrimPrefix(tag, p.storeNumberPrefix)
      companyNameTag == TrimPrefix(tag, p.companyNamePrefix)
  IN  IF HasPrefix(tag, p.storeNumberPrefix)
      THEN IF Len(numberTag) = 0 \/ ~AtoiOK(numberTag)
                \/ AtoiVal(numberTag) = p.storeTestNumber
           THEN [StoreNumber |-> storeNumber, CompanyName |-> companyName]
           ELSE [StoreNumber |-> AtoiVal(numberTag), CompanyName |-> companyName]
      ELSE IF HasPrefix(tag, p.companyNamePrefix)
      THEN IF Len(companyNameTag) = 0
           THEN [StoreNumber |-> storeNumber, CompanyName |-> companyName]
           ELSE IF companyNameTag \in DOMAIN p.companies
           THEN [StoreNumber |-> storeNumber,
                 CompanyName |-> p.companies[companyNameTag]]
           ELSE [StoreNumber |-> storeNumber, CompanyName |-> companyNameTag]
      ELSE [StoreNumber |-> storeNumber, CompanyName |-> companyName]

RECURSIVE parseTagsFrom(_, _, _, _, _)
parseTagsFrom(tags, i, storeNumber, companyName, p) ==
  IF i > Len(tags)
  THEN [StoreNumber |-> storeNumber, CompanyName |-> companyName]
  ELSE LET r == parseTag(tags[i], storeNumber, companyName, p)
       IN  parseTagsFrom(tags, i + 1, r.StoreNumber, r.CompanyName, p)

\* parser.parseTags: the tags in order, from StoreNumber 0 and CompanyName ""
parseTags(tags, p) == parseTagsFrom(tags, 1, 0, << >>, p)

\* initPlayer were it to hand an empty identifier to strconv.Atoi
initPlayerErrNoEmptyID(raw) ==
  IF ~AtoiOK(raw.ID) THEN ErrParseID
  ELSE IF ~AtoiOK(raw.TimeZoneDiff) THEN ErrParseTZ
  ELSE IF ~ParseDateTime(raw.LastOnline).ok THEN ErrParseLastOnline
  ELSE ErrNil

\* the error initPlayer returns for a raw record: the first field that fails
initPlayerErr(raw) ==
  IF Len(raw.ID) # 0 /\ ~AtoiOK(raw.ID) THEN ErrParseID
  ELSE IF ~AtoiOK(raw.TimeZoneDiff) THEN ErrParseTZ
  ELSE IF ~ParseDateTime(raw.LastOnline).ok THEN ErrParseLastOnline
  ELSE ErrNil

\* the model.Player initPlayer builds when no field fails
initPlayerValue(raw, p) ==
  LET tags    == IF Len(raw.Tags) # 0 THEN Split(raw.Tags, ",") ELSE << >>
      derived == parseTags(tags, p)
  IN  [Number       |-> raw.Number,
       ID           |-> IF Len(raw.ID) # 0 THEN AtoiVal(raw.ID) ELSE 0,
       GroupName    |-> raw.GroupName,
       Tags         |-> tags,
       TimeZoneDiff |-> AtoiVal(raw.TimeZoneDiff),
       LastOnline   |-> ParseDateTime(raw.LastOnline).t,
       MAC          |-> normalizeMAC(raw.MAC),
       StoreNumber  |-> derived.StoreNumber,
       CompanyName  |-> derived.CompanyName]

\* The result of a call that may panic: status "ok" (it returned val and err)
\* or "panic" (a nil pointer dereference unwound it)
Returned(val, err) == [status |-> "ok", val |-> val, err |-> err]

Panicked == [status |-> "panic", val |-> << >>, err |-> ErrNil]

\* parser.rawToPlayers: a record whose initPlayer fails is skipped; initPlayer
\* reads raw.ID first, which panics on a nil pointer
RECURSIVE rawToPlayersFrom(_, _, _, _)
rawToPlayersFrom(rawPlayers, i, players, p) ==
  IF i > Len(rawPlayers) THEN Returned(players, ErrNil)
  ELSE IF rawPlayers[i].nil THEN Panicked
  ELSE IF initPlayerErr(rawPlayers[i].raw) # ErrNil
  THEN rawToPlayersFrom(rawPlayers, i + 1, players, p)
  ELSE rawToPlayersFrom(rawPlayers, i + 1,
         Append(players, initPlayerValue(rawPlayers[i].raw, p)), p)

\* rawToPlayers were it to stop at the first record that fails
RECURSIVE rawToPlayersStopFrom(_, _, _, _)
rawToPlayersStopFrom(rawPlayers, i, players, p) ==
  IF i > Len(rawPlayers) THEN Returned(players, ErrNil)
  ELSE IF rawPlayers[i].nil THEN Panicked
  ELSE IF initPlayerErr(rawPlayers[i].raw) # ErrNil
  THEN Returned(players, ErrNil)
  ELSE rawToPlayersStopFrom(rawPlayers, i + 1,
         Append(players, initPlayerValue(rawPlayers[i].raw, p)), p)

rawToPlayersStop(rawPlayers, p) == rawToPlayersStopFrom(rawPlayers, 1, << >>, p)

rawToPlayers(rawPlayers, p) == rawToPlayersFrom(rawPlayers, 1, << >>, p)

(***************************************************************************)
(* The payload and encoding/json.Unmarshal into []*model.PlayerReceive.    *)
(* A body is [kind, elems]: "invalid" is no JSON text, "scalar" a JSON     *)
(* value that is neither null nor an array, "null" the JSON null, "array"  *)
(* an array of elems.  An element is [k, raw]: "null" the JSON null,       *)
(* "mistyped" a value that is no object or an object with a field of the   *)
(* wrong JSON type, "obj" an object that decodes to raw.                   *)
(***************************************************************************)
ErrJSON == "json: cannot unmarshal"

JNull == [k |-> "null", raw |-> NilRaw.raw]

JMistyped == [k |-> "mistyped", raw |-> NilRaw.raw]

JObj(r) == [k |-> "obj", raw |-> r]

\* a nil []byte, returned beside an error
NilBody == [kind |-> "nil", elems |-> << >>]

BodyInvalid == [kind |-> "invalid", elems |-> << >>]

BodyScalar == [kind |-> "scalar", elems |-> << >>]

BodyNull == [kind |-> "null", elems |-> << >>]

BodyArray(elems) == [kind |-> "array", elems |-> elems]

\* what Unmarshal stores for one array element: a JSON null is a nil pointer
decodeElem(e) == IF e.k = "null" THEN NilRaw ELSE PtrRaw(e.raw)

\* parser.parseRaw: [err, rawPlayers]
parseRaw(body) ==
  IF body.kind \in {"nil", "invalid", "scalar"}
  THEN [err |-> ErrJSON, rawPlayers |-> << >>]
  ELSE IF \E i \in 1..Len(body.elems) : body.elems[i].k = "mistyped"
  THEN [err |-> ErrJSON, rawPlayers |-> << >>]
  ELSE [err |-> ErrNil,
        rawPlayers |-> [i \in 1..Len(body.elems) |-> decodeElem(body.elems[i])]]

\* parser.Players
Players(body, p) ==
  LET r == parseRaw(body)
  IN  IF r.err # ErrNil THEN Returned(<< >>, r.err)
      ELSE rawToPlayers(r.rawPlayers, p)

(***************************************************************************)
(* criteria.Filter.  A time.Duration is [h, s]: whole hours and the        *)
(* seconds of the hour left over (0..3599), as Duration.Hours() splits it. *)
(***************************************************************************)
\* the largest Duration (2^63-1 ns), to which Time.Sub saturates
MaxDurationHours == 2562047

MaxDurationSecs == 2836

\* a comparison that lets equal durations through
DurLT(a, b) == a.h < b.h \/ (a.h = b.h /\ a.s < b.s)

\* a <= b of two durations
DurLE(a, b) == a.h < b.h \/ (a.h = b.h /\ a.s <= b.s)

\* hoursDelta were it to measure from now to t
hoursUntil(t, now) ==
  LET secs == t.sec - now.sec
      days == t.day - now.day
  IN  [h |-> days * 24 + (secs \div 3600), s |-> secs % 3600]

\* criteria.hoursDelta: time.Since(t) at the instant now
hoursDelta(t, now) ==
  LET secs == now.sec - t.sec
      days == now.day - t.day
      d    == [h |-> days * 24 + (secs \div 3600), s |-> secs % 3600]
      top  == [h |-> MaxDurationHours, s |-> MaxDurationSecs]
      low  == [h |-> 0 - MaxDurationHours - 1, s |-> 3600 - MaxDurationSecs - 1]
  IN  IF ~DurLE(d, top) THEN top ELSE IF ~DurLE(low, d) THEN low ELSE d

\* extractGroupName were it to return the group name whole
extractGroupNameWhole(player) == player.GroupName

\* criteria.extractGroupName
extractGroupName(player) == Split(player.GroupName, "/")[1]

\* stringInSlice were an empty slice to hold every string
stringInSliceOrEmpty(slice, str) ==
  Len(slice) = 0 \/ \E i \in 1..Len(slice) : slice[i] = str

\* criteria.stringInSlice
stringInSlice(slice, str) == \E i \in 1..Len(slice) : slice[i] = str

\* criteria.intersection
intersection(slice1, slice2) ==
  \E i \in 1..Len(slice1) : stringInSlice(slice2, slice1[i])

\* isIgnored without the rule of the ignored tags
isIgnoredNoTags(player, c, now) ==
  \/ stringInSlice(c.ignoredGroups, extractGroupName(player))
  \/ ~stringInSlice(c.allowedCompanies, player.CompanyName)
  \/ DurLE(hoursDelta(player.LastOnline, now), c.maxOffline)

\* criteria.isIgnored
isIgnored(player, c, now) ==
  \/ intersection(c.ignoredTags, player.Tags)
  \/ stringInSlice(c.ignoredGroups, extractGroupName(player))
  \/ ~stringInSlice(c.allowedCompanies, player.CompanyName)
  \/ DurLE(hoursDelta(player.LastOnline, now), c.maxOffline)

\* criteria.Filter
RECURSIVE FilterFrom(_, _, _, _)
FilterFrom(players, i, c, now) ==
  IF i > Len(players) THEN << >>
  ELSE IF isIgnored(players[i], c, now) THEN FilterFrom(players, i + 1, c, now)
  ELSE << players[i] >> \o FilterFrom(players, i + 1, c, now)

\* Filter were it to put each survivor in front of the ones before it
RECURSIVE FilterNewestFirstFrom(_, _, _, _)
FilterNewestFirstFrom(players, i, c, now) ==
  IF i > Len(players) THEN << >>
  ELSE IF isIgnored(players[i], c, now)
  THEN FilterNewestFirstFrom(players, i + 1, c, now)
  ELSE FilterNewestFirstFrom(players, i + 1, c, now) \o << players[i] >>

FilterNewestFirst(players, c, now) == FilterNewestFirstFrom(players, 1, c, now)

Filter(players, c, now) == FilterFrom(players, 1, c, now)

(***************************************************************************)
(* cluster.ByStoreNumber: a map from store number to the players of it.    *)
(***************************************************************************)
RECURSIVE ByStoreNumberFrom(_, _, _)
ByStoreNumberFrom(players, i, byStoreNumber) ==
  IF i > Len(players) THEN byStoreNumber
  ELSE LET sn   == players[i].StoreNumber
           prev == IF sn \in DOMAIN byStoreNumber THEN byStoreNumber[sn] ELSE << >>
       IN  ByStoreNumberFrom(players, i + 1,
             [k \in (DOMAIN byStoreNumber) \cup {sn} |->
                IF k = sn THEN Append(prev, players[i]) ELSE byStoreNumber[k]])

\* the empty map[int][]*model.Player
EmptyMap == [k \in {} |-> << >>]

\* ByStoreNumber were it to assign the player to the key instead of appending
RECURSIVE ByStoreNumberLastFrom(_, _, _)
ByStoreNumberLastFrom(players, i, byStoreNumber) ==
  IF i > Len(players) THEN byStoreNumber
  ELSE LET sn == players[i].StoreNumber
       IN  ByStoreNumberLastFrom(players, i + 1,
             [k \in (DOMAIN byStoreNumber) \cup {sn} |->
                IF k = sn THEN << players[i] >> ELSE byStoreNumber[k]])

ByStoreNumberLast(players) == ByStoreNumberLastFrom(players, 1, EmptyMap)

\* ByStoreNumber were it to start from a map that has the key 0
ByStoreNumberZeroKey(players) ==
  ByStoreNumberFrom(players, 1, [k \in {0} |-> << >>])

\* ByStoreNumber were it to put the player in front of its group
RECURSIVE ByStoreNumberFrontFrom(_, _, _)
ByStoreNumberFrontFrom(players, i, byStoreNumber) ==
  IF i > Len(players) THEN byStoreNumber
  ELSE LET sn   == players[i].StoreNumber
           prev == IF sn \in DOMAIN byStoreNumber THEN byStoreNumber[sn] ELSE << >>
       IN  ByStoreNumberFrontFrom(players, i + 1,
             [k \in (DOMAIN byStoreNumber) \cup {sn} |->
                IF k = sn THEN << players[i] >> \o prev ELSE byStoreNumber[k]])

ByStoreNumberFront(players) == ByStoreNumberFrontFrom(players, 1, EmptyMap)

ByStoreNumber(players) == ByStoreNumberFrom(players, 1, EmptyMap)

(***************************************************************************)
(* fetcher.Data.  The outcome of http.NewRequestWithContext and of         *)
(* client.Do is the record do: reqErr (the request could not be built),    *)
(* err (Do returned an error), respNil (Do returned no response; a failed  *)
(* redirect returns the response beside the error), status, readErr        *)
(* (io.ReadAll failed) and body.                                           *)
(***************************************************************************)
StatusOK == 200

StatusInternalServerError == 500

ErrRequest == "net/http: invalid request"
ErrTransport == "net/http: transport error"
ErrRead == "unexpected EOF"
ErrHTTP == "HTTPError"

DoOutcome(reqErr, err, respNil, status, readErr, body) ==
  [reqErr |-> reqErr, err |-> err, respNil |-> respNil, status |-> status,
   readErr |-> readErr, body |-> body]

\* fetcher.Data: the error of Do is logged and not returned, and the response
\* is dereferenced next
Data(do) ==
  IF do.reqErr THEN Returned(NilBody, ErrRequest)
  ELSE IF do.respNil THEN Panicked
  ELSE IF do.status # StatusOK THEN Returned(NilBody, ErrHTTP)
  ELSE IF do.readErr THEN Returned(NilBody, ErrRead)
  ELSE Returned(do.body, ErrNil)

(***************************************************************************)
(* The configuration and the inputs of a run.                              *)
(***************************************************************************)
\* cfg.Data as the parser reads it (player.New)
ParserOf(data) ==
  [storeTestNumber   |-> data.StoreTestNumber,
   storeNumberPrefix |-> data.StoreNumberPrefix,
   companyNamePrefix |-> data.CompanyNamePrefix,
   companies         |-> data.Companies]

\* cfg.Data as the filter reads it (filter.New)
CriteriaOf(data) ==
  [ignoredGroups    |-> data.IgnoredGroups,
   allowedCompanies |-> data.AllowedCompanies,
   ignoredTags      |-> data.IgnoredTags,
   maxOffline       |-> data.MaxOffline]

\* One cfg.Data: store tags "S<n>", company tags "C<name>", test store 9,
\* company "a" mapped to "A", 24 hours of tolerated silence
SampleData ==
  [StoreTestNumber   |-> 9,
   StoreNumberPrefix |-> << "S" >>,
   CompanyNamePrefix |-> << "C" >>,
   Companies         |-> (<< "a" >> :> << "A" >>),
   IgnoredGroups     |-> << << "g" >> >>,
   AllowedCompanies  |-> << << "A" >> >>,
   IgnoredTags       |-> << << "t" >> >>,
   MaxOffline        |-> [h |-> 24, s |-> 0]]

\* The configurations of a Handler run: cfg.App.MaxGoroutines from -1 up
Configs ==
  {[App |-> [MaxGoroutines |-> m], Data |-> SampleData] : m \in (0 - 1)..MaxPermits}

\* last seen long before, and shortly before, the instants of NowSamples
StampOld == << "2", "0", "2", "5", "-", "0", "1", "-", "0", "1", " ",
               "0", "0", ":", "0", "0", ":", "0", "0" >>

StampRecent == << "2", "0", "2", "5", "-", "1", "2", "-", "3", "1", " ",
                  "2", "3", ":", "0", "0", ":", "0", "0" >>

\* the wall clock when Filter runs
NowSamples == {[day |-> AbsDay(2026, 1, 1), sec |-> 0]}

\* the raw records a fetched payload is made of: stores 1 and 2, the test
\* store (so store 0), an unparsable id, and a player seen an hour ago
RawSamples ==
  {PlayerReceive(1, << "1" >>, << "h" >>, << "S", "1", ",", "C", "a" >>,
                 << "3" >>, StampOld, << >>),
   PlayerReceive(2, << >>, << "h" >>, << "S", "2", ",", "C", "a" >>,
                 << "3" >>, StampOld, << >>),
   PlayerReceive(3, << "3" >>, << "h" >>, << "S", "9", ",", "C", "a" >>,
                 << "3" >>, StampOld, << >>),
   PlayerReceive(4, << "x" >>, << "h" >>, << "S", "1", ",", "C", "a" >>,
                 << "3" >>, StampOld, << >>),
   PlayerReceive(5, << "5" >>, << "h" >>, << "S", "1", ",", "C", "a" >>,
                 << "3" >>, StampRecent, << >>)}

\* the elements of a fetched array: the records above and the JSON null
ElemSamples == {JObj(r) : r \in RawSamples} \cup {JNull}

\* the sequences over S of length at most n
RECURSIVE SeqsUpTo(_, _)
SeqsUpTo(S, n) ==
  IF n = 0 THEN {<< >>}
  ELSE LET shorter == SeqsUpTo(S, n - 1)
       IN  shorter \cup {Append(q, e) : q \in shorter, e \in S}

\* the report lists its rows by ascending number
Ascending(q) ==
  \A i, j \in 1..Len(q) :
    (i < j /\ q[i].k = "obj" /\ q[j].k = "obj") => q[i].raw.Number < q[j].raw.Number

\* the bodies the upstream may answer with
Payloads ==
  {BodyInvalid, BodyScalar, BodyNull, BodyArray(<< JMistyped >>)}
    \cup {BodyArray(q) : q \in {x \in SeqsUpTo(ElemSamples, MaxRecords) : Ascending(x)}}

\* what building the request and client.Do may come to
DoOutcomes ==
  {DoOutcome(TRUE, FALSE, TRUE, 0, FALSE, NilBody),
   DoOutcome(FALSE, TRUE, TRUE, 0, FALSE, NilBody),
   DoOutcome(FALSE, TRUE, FALSE, 302, FALSE, NilBody),
   DoOutcome(FALSE, FALSE, FALSE, StatusInternalServerError, FALSE, NilBody),
   DoOutcome(FALSE, FALSE, FALSE, StatusOK, TRUE, NilBody)}
    \cup {DoOutcome(FALSE, FALSE, FALSE, StatusOK, FALSE, b) : b \in Payloads}

(***************************************************************************)
(* State.                                                                  *)
(***************************************************************************)
VARIABLES
  pc,             \* where Handler is: the call it makes next
  cfg,            \* config.Must()
  sharedLoopVar,  \* the build: TRUE if storeNumber and clusterPlayers of the
                  \* range loop are one variable per loop (the Go 1.21 the
                  \* function is deployed on), FALSE if one per iteration
  expired,        \* the deadline of ctx has passed
  env,            \* what the collaborators answered: loader and mailer (the
                  \* template directory and template were found), fetched
                  \* (Data was called) and do (what the request came to)
  dataRes,        \* what fetcher.Data came to
  allPlayers,     \* the result of parser.Players
  players,        \* the result of criteria.Filter
  clusters,       \* the result of cluster.ByStoreNumber
  response,       \* what Handler returned: [StatusCode, err]
  sem,            \* the number of permits held in the channel sem
  wg,             \* the counter of the sync.WaitGroup
  pending,        \* the keys of clusters the range loop has not visited
  storeNumber,    \* the loop variable storeNumber
  clusterPlayers, \* the loop variable clusterPlayers
  task,           \* per key of clusters: the goroutine launched for it
  parserIn,       \* parser specification: the body handed to Players
  parserOut,      \* parser specification: what Players came to
  unitIn,         \* the specification of one function: its arguments
  unitOut         \* the specification of one function: what it returned

handlerVars ==
  << pc, cfg, sharedLoopVar, expired, env, dataRes, allPlayers, players,
     clusters, response, sem, wg, pending, storeNumber, clusterPlayers, task >>

parserVars == << parserIn, parserOut, unitIn, unitOut >>

vars == << handlerVars, parserVars >>

\* no call made yet
NotCalled == [status |-> "none", val |-> << >>, err |-> ErrNil]

NoResponse == [StatusCode |-> 0, err |-> ErrNil]

NoDo == DoOutcome(FALSE, FALSE, TRUE, 0, FALSE, NilBody)

\* A goroutine of mailByCluster: pc is "none" (not launched), "ready"
\* (launched, Send not called), "sending" (in Send), "failed" (Send returned an
\* error, not logged yet), "release" (at <-sem), "wg.Done", "done"; calls
\* counts its calls of Send, s and r are the arguments of the last one, err is
\* what Send returned, logCluster and logPlayers are what its error log names
NoTask ==
  [pc |-> "none", calls |-> 0, s |-> 0, r |-> << >>, err |-> ErrNil,
   logCluster |-> 0, logPlayers |-> 0]

ErrSend == "mailer.Send: failed to send mail"

(***************************************************************************)
(* Handler, up to the call of mailByCluster.                               *)
(***************************************************************************)
Init ==
  /\ pc = "templateloader.New"
  /\ cfg \in Configs
  /\ sharedLoopVar \in BOOLEAN
  /\ expired = FALSE
  /\ env = [loader |-> TRUE, mailer |-> TRUE, fetched |-> FALSE, do |-> NoDo]
  /\ dataRes = NotCalled
  /\ allPlayers = << >>
  /\ players = << >>
  /\ clusters = EmptyMap
  /\ response = NoResponse
  /\ sem = 0
  /\ wg = 0
  /\ pending = {}
  /\ storeNumber = 0
  /\ clusterPlayers = << >>
  /\ task = [k \in {} |-> NoTask]
  /\ parserIn = NilBody
  /\ parserOut = NotCalled
  /\ unitIn = << >>
  /\ unitOut = NotCalled

\* return &Response{StatusCode: http.StatusInternalServerError}, err
ReturnError(err) ==
  /\ response' = [StatusCode |-> StatusInternalServerError, err |-> err]
  /\ pc' = "returned"

\* templateloader.New: fails if the templates directory does not exist
TemplateLoaderNew ==
  /\ pc = "templateloader.New"
  /\ \E exists \in BOOLEAN :
       /\ env' = [env EXCEPT !.loader = exists]
       /\ IF exists
          THEN pc' = "mailer.New" /\ UNCHANGED response
          ELSE ReturnError("loader.Must: directory")
  /\ UNCHANGED << cfg, sharedLoopVar, expired, dataRes, allPlayers, players,
                  clusters, sem, wg, pending, storeNumber, clusterPlayers,
                  task, parserVars >>

\* mailer.New: fails if the template cannot be loaded
MailerNew ==
  /\ pc = "mailer.New"
  /\ \E loaded \in BOOLEAN :
       /\ env' = [env EXCEPT !.mailer = loaded]
       /\ IF loaded
          THEN pc' = "Data" /\ UNCHANGED response
          ELSE ReturnError("mailer.New: mail template initialization failed")
  /\ UNCHANGED << cfg, sharedLoopVar, expired, dataRes, allPlayers, players,
                  clusters, sem, wg, pending, storeNumber, clusterPlayers,
                  task, parserVars >>

\* dataFetcher.Data(ctx): once the deadline has passed a request that can be
\* built is aborted, Do returning an error and no response
FetchData ==
  /\ pc = "Data"
  /\ \E do \in DoOutcomes :
       /\ expired => (do.reqErr \/ (do.err /\ do.respNil))
       /\ env' = [env EXCEPT !.fetched = TRUE, !.do = do]
       /\ dataRes' = Data(do)
       /\ IF Data(do).status = "panic"
          THEN pc' = "panicked" /\ UNCHANGED response
          ELSE IF Data(do).err # ErrNil
          THEN ReturnError(Data(do).err)
          ELSE pc' = "Players" /\ UNCHANGED response
  /\ UNCHANGED << cfg, sharedLoopVar, expired, allPlayers, players, clusters,
                  sem, wg, pending, storeNumber, clusterPlayers, task,
                  parserVars >>

\* playerParser.Players(body)
ParsePlayers ==
  /\ pc = "Players"
  /\ LET r == Players(dataRes.val, ParserOf(cfg.Data))
     IN  IF r.status = "panic"
         THEN pc' = "panicked" /\ UNCHANGED << response, allPlayers >>
         ELSE IF r.err # ErrNil
         THEN ReturnError(r.err) /\ UNCHANGED allPlayers
         ELSE pc' = "Filter" /\ allPlayers' = r.val /\ UNCHANGED response
  /\ UNCHANGED << cfg, sharedLoopVar, expired, env, dataRes, players, clusters,
                  sem, wg, pending, storeNumber, clusterPlayers, task,
                  parserVars >>

\* filterCriteria.Filter(allPlayers): its error is always nil
FilterPlayers ==
  /\ pc = "Filter"
  /\ \E now \in NowSamples :
       players' = Filter(allPlayers, CriteriaOf(cfg.Data), now)
  /\ pc' = "ByStoreNumber"
  /\ UNCHANGED << cfg, sharedLoopVar, expired, env, dataRes, allPlayers,
                  clusters, response, sem, wg, pending, storeNumber,
                  clusterPlayers, task, parserVars >>

\* clusterProcessor.ByStoreNumber(players)
ClusterPlayers ==
  /\ pc = "ByStoreNumber"
  /\ clusters' = ByStoreNumber(players)
  /\ pc' = "mailByCluster"
  /\ UNCHANGED << cfg, sharedLoopVar, expired, env, dataRes, allPlayers,
                  players, response, sem, wg, pending, storeNumber,
                  clusterPlayers, task, parserVars >>

\* the deadline of ctx passes while Handler runs
DeadlineExpires ==
  /\ ~expired
  /\ pc \notin {"returned", "panicked"}
  /\ expired' = TRUE
  /\ UNCHANGED << pc, cfg, sharedLoopVar, env, dataRes, allPlayers, players,
                  clusters, response, sem, wg, pending, storeNumber,
                  clusterPlayers, task, parserVars >>

(***************************************************************************)
(* mailByCluster: the submitting loop and the goroutines it launches.      *)
(***************************************************************************)
\* a gate that admits whatever the channel holds
SemUnbounded(held, capacity) == TRUE

\* sem <- struct{}{} goes through while the channel holds fewer than cap(sem)
SemHasRoom(held, capacity) == held < capacity

\* a Wait that returns at once
WaitGroupIgnored(counter) == TRUE

\* wg.Wait() returns once the counter is zero
WaitGroupZero(counter) == counter = 0

\* a failing goroutine that skips <-sem
AfterFailureLogKeepsPermit == "wg.Done"

\* where a goroutine whose Send failed goes after logging: the deferred
\* function, which starts with <-sem
AfterFailureLog == "release"

\* what the closure launched for key k reads from the variable storeNumber
\* when it runs: its own iteration's value, or the loop's one variable
ReadStoreNumber(k) == IF sharedLoopVar THEN storeNumber ELSE k

\* what the closure launched for key k reads from the variable clusterPlayers
ReadClusterPlayers(k) == IF sharedLoopVar THEN clusterPlayers ELSE clusters[k]

\* sem := make(chan struct{}, maxGoroutines): a negative size panics
MakeSem ==
  /\ pc = "mailByCluster"
  /\ IF cfg.App.MaxGoroutines < 0
     THEN pc' = "panicked" /\ UNCHANGED << pending, task >>
     ELSE /\ pc' = "range"
          /\ pending' = DOMAIN clusters
          /\ task' = [k \in DOMAIN clusters |-> NoTask]
  /\ UNCHANGED << cfg, sharedLoopVar, expired, env, dataRes, allPlayers,
                  players, clusters, response, sem, wg, storeNumber,
                  clusterPlayers, parserVars >>

\* for storeNumber, clusterPlayers := range clusters: the next key, in the
\* order the map yields, assigned to the loop variables
RangeNext ==
  /\ pc = "range"
  /\ \E k \in pending :
       /\ storeNumber' = k
       /\ clusterPlayers' = clusters[k]
       /\ pending' = pending \ {k}
  /\ pc' = "acquire"
  /\ UNCHANGED << cfg, sharedLoopVar, expired, env, dataRes, allPlayers,
                  players, clusters, response, sem, wg, task, parserVars >>

\* sem <- struct{}{}; wg.Add(1); go func(sn, players){...}(storeNumber, clusterPlayers)
Submit ==
  /\ pc = "acquire"
  /\ SemHasRoom(sem, cfg.App.MaxGoroutines)
  /\ sem' = sem + 1
  /\ wg' = wg + 1
  /\ task' = [task EXCEPT ![storeNumber].pc = "ready"]
  /\ pc' = "range"
  /\ UNCHANGED << cfg, sharedLoopVar, expired, env, dataRes, allPlayers,
                  players, clusters, response, pending, storeNumber,
                  clusterPlayers, parserVars >>

\* the range is over: wg.Wait() is next
RangeEnd ==
  /\ pc = "range"
  /\ pending = {}
  /\ pc' = "wg.Wait"
  /\ UNCHANGED << cfg, sharedLoopVar, expired, env, dataRes, allPlayers,
                  players, clusters, response, sem, wg, pending, storeNumber,
                  clusterPlayers, task, parserVars >>

\* wg.Wait() returns and with it mailByCluster
WaitReturns ==
  /\ pc = "wg.Wait"
  /\ WaitGroupZero(wg)
  /\ pc' = "respond"
  /\ UNCHANGED << cfg, sharedLoopVar, expired, env, dataRes, allPlayers,
                  players, clusters, response, sem, wg, pending, storeNumber,
                  clusterPlayers, task, parserVars >>

\* return &Response{StatusCode: 200, Body: "Successful response"}, nil
HandlerReturns ==
  /\ pc = "respond"
  /\ response' = [StatusCode |-> StatusOK, err |-> ErrNil]
  /\ pc' = "returned"
  /\ UNCHANGED << cfg, sharedLoopVar, expired, env, dataRes, allPlayers,
                  players, clusters, sem, wg, pending, storeNumber,
                  clusterPlayers, task, parserVars >>

\* the goroutine of key k calls m.Send(storeNumber, players): players is its
\* parameter, storeNumber the variable of the loop
SendCall(k) ==
  /\ task[k].pc = "ready"
  /\ task' = [task EXCEPT ![k].pc = "sending",
                          ![k].calls = @ + 1,
                          ![k].s = ReadStoreNumber(k),
                          ![k].r = clusters[k]]
  /\ UNCHANGED << pc, cfg, sharedLoopVar, expired, env, dataRes, allPlayers,
                  players, clusters, response, sem, wg, pending, storeNumber,
                  clusterPlayers, parserVars >>

\* m.Send returns, nil or an error
SendReturn(k) ==
  /\ task[k].pc = "sending"
  /\ \E ok \in BOOLEAN :
       task' = [task EXCEPT ![k].pc = IF ok THEN "release" ELSE "failed",
                            ![k].err = IF ok THEN ErrNil ELSE ErrSend]
  /\ UNCHANGED << pc, cfg, sharedLoopVar, expired, env, dataRes, allPlayers,
                  players, clusters, response, sem, wg, pending, storeNumber,
                  clusterPlayers, parserVars >>

\* logger.Error(..., "cluster", storeNumber, "players", len(clusterPlayers))
LogFailure(k) ==
  /\ task[k].pc = "failed"
  /\ task' = [task EXCEPT ![k].pc = AfterFailureLog,
                          ![k].logCluster = ReadStoreNumber(k),
                          ![k].logPlayers = Len(ReadClusterPlayers(k))]
  /\ UNCHANGED << pc, cfg, sharedLoopVar, expired, env, dataRes, allPlayers,
                  players, clusters, response, sem, wg, pending, storeNumber,
                  clusterPlayers, parserVars >>

\* the deferred function: <-sem
ReleasePermit(k) ==
  /\ task[k].pc = "release"
  /\ sem' = sem - 1
  /\ task' = [task EXCEPT ![k].pc = "wg.Done"]
  /\ UNCHANGED << pc, cfg, sharedLoopVar, expired, env, dataRes, allPlayers,
                  players, clusters, response, wg, pending, storeNumber,
                  clusterPlayers, parserVars >>

\* the deferred function: wg.Done()
WaitGroupDone(k) ==
  /\ task[k].pc = "wg.Done"
  /\ wg' = wg - 1
  /\ task' = [task EXCEPT ![k].pc = "done"]
  /\ UNCHANGED << pc, cfg, sharedLoopVar, expired, env, dataRes, allPlayers,
                  players, clusters, response, sem, pending, storeNumber,
                  clusterPlayers, parserVars >>

Goroutine ==
  \E k \in DOMAIN task :
    \/ SendCall(k)
    \/ SendReturn(k)
    \/ LogFailure(k)
    \/ ReleasePermit(k)
    \/ WaitGroupDone(k)

Next ==
  \/ TemplateLoaderNew
  \/ MailerNew
  \/ FetchData
  \/ ParsePlayers
  \/ FilterPlayers
  \/ ClusterPlayers
  \/ DeadlineExpires
  \/ MakeSem
  \/ RangeNext
  \/ Submit
  \/ RangeEnd
  \/ WaitReturns
  \/ HandlerReturns
  \/ Goroutine

Spec == Init /\ [][Next]_vars

\* a step of mailByCluster, of a goroutine it launched, or Handler's return
\* after it
DispatchStep ==
  \/ MakeSem
  \/ RangeNext
  \/ Submit
  \/ RangeEnd
  \/ WaitReturns
  \/ HandlerReturns
  \/ Goroutine

\* The scheduler runs every goroutine that can run, and every call of Send
\* returns: a step of the dispatch that stays possible is taken.
FairSpec == Spec /\ WF_vars(DispatchStep)

(***************************************************************************)
(* parser.Players on its own: the body is the input.                       *)
(***************************************************************************)
IDSamples == {<< >>, << "7" >>, << "-", "4" >>, << "x" >>, << "+" >>}

TZSamples == {<< "3" >>, << >>}

\* a month of one digit does not match the layout
StampBad == << "2", "0", "2", "5", "-", "1", "-", "0", "1", " ",
               "0", "0", ":", "0", "0", ":", "0", "0" >>

\* a fractional second after the seconds
StampFraction == << "2", "0", "2", "5", "-", "0", "1", "-", "0", "1", " ",
                    "0", "0", ":", "0", "0", ":", "0", "0", ".", "5" >>

\* an hour of one digit
StampShortHour == << "2", "0", "2", "5", "-", "0", "1", "-", "0", "1", " ",
                     "1", ":", "0", "0", ":", "0", "0" >>

\* the 30th of February
StampNoSuchDay == << "2", "0", "2", "5", "-", "0", "2", "-", "3", "0", " ",
                     "0", "0", ":", "0", "0", ":", "0", "0" >>

StampSamples == {StampOld, StampBad, StampFraction, StampShortHour, StampNoSuchDay}

\* the array elements of the parser specification, before they are numbered
ParserElems ==
  {JObj(PlayerReceive(0, id, << "h" >>, << "S", "1" >>, tz, stamp, << >>)) :
     id \in IDSamples, tz \in TZSamples, stamp \in StampSamples}
    \cup {JNull, JMistyped}

\* the elements of q with Number set to the position, as the upstream numbers them
Numbered(q) ==
  [i \in 1..Len(q) |-> [q[i] EXCEPT !.raw.Number = IF q[i].k = "obj" THEN i ELSE 0]]

\* the bodies handed to Players: the ones that are no array, and the arrays
\* of at most n elements
ParserBodies(n) ==
  {BodyInvalid, BodyScalar, BodyNull}
    \cup {BodyArray(Numbered(q)) : q \in SeqsUpTo(ParserElems, n)}

InitParser ==
  /\ parserIn \in ParserBodies(MaxBatch)
  /\ parserOut = NotCalled
  /\ unitIn = << >>
  /\ unitOut = NotCalled
  /\ pc = "idle"
  /\ cfg = [App |-> [MaxGoroutines |-> 0], Data |-> SampleData]
  /\ sharedLoopVar = FALSE
  /\ expired = FALSE
  /\ env = [loader |-> TRUE, mailer |-> TRUE, fetched |-> FALSE, do |-> NoDo]
  /\ dataRes = NotCalled
  /\ allPlayers = << >>
  /\ players = << >>
  /\ clusters = EmptyMap
  /\ response = NoResponse
  /\ sem = 0
  /\ wg = 0
  /\ pending = {}
  /\ storeNumber = 0
  /\ clusterPlayers = << >>
  /\ task = [k \in {} |-> NoTask]

\* playerParser.Players(body)
CallPlayers ==
  /\ parserOut.status = "none"
  /\ parserOut' = Players(parserIn, ParserOf(cfg.Data))
  /\ UNCHANGED << parserIn, unitIn, unitOut, handlerVars >>

NextParser == CallPlayers

SpecParser == InitParser /\ [][NextParser]_vars

(***************************************************************************)
(* The functions specified on their own: Handler does not run.             *)
(***************************************************************************)
HandlerIdle ==
  /\ pc = "idle"
  /\ cfg = [App |-> [MaxGoroutines |-> 0], Data |-> SampleData]
  /\ sharedLoopVar = FALSE
  /\ expired = FALSE
  /\ env = [loader |-> TRUE, mailer |-> TRUE, fetched |-> FALSE, do |-> NoDo]
  /\ dataRes = NotCalled
  /\ allPlayers = << >>
  /\ players = << >>
  /\ clusters = EmptyMap
  /\ response = NoResponse
  /\ sem = 0
  /\ wg = 0
  /\ pending = {}
  /\ storeNumber = 0
  /\ clusterPlayers = << >>
  /\ task = [k \in {} |-> NoTask]
  /\ parserIn = NilBody
  /\ parserOut = NotCalled

\* the tags of a player: store tags (an integer, the test store, a signed
\* number, no number, nothing), company tags (mapped, unmapped, nothing) and
\* a tag of neither kind
TagSamples ==
  {<< "S", "1" >>, << "S", "2" >>, << "S", "9" >>, << "S", "-", "3" >>,
   << "S", "x" >>, << "S" >>, << "C", "a" >>, << "C", "b" >>, << "C" >>,
   << "S", "C", "a" >>, << "t" >>}

\* cfg.Data with a company-name prefix that starts with the store-number prefix
OverlapData == [SampleData EXCEPT !.CompanyNamePrefix = << "S", "C" >>]

DataSamples == {SampleData, OverlapData}

InitParseTags ==
  /\ HandlerIdle
  /\ unitIn \in [tags : SeqsUpTo(TagSamples, MaxTags), data : DataSamples]
  /\ unitOut = NotCalled

\* p.parseTags(player) on a player with StoreNumber 0 and CompanyName ""
CallParseTags ==
  /\ unitOut.status = "none"
  /\ unitOut' = Returned(parseTags(unitIn.tags, ParserOf(unitIn.data)), ErrNil)
  /\ UNCHANGED << unitIn, parserIn, parserOut, handlerVars >>

NextParseTags == CallParseTags

SpecParseTags == InitParseTags /\ [][NextParseTags]_vars

\* pieces of a raw MAC address: runs of hexadecimal digits in either case,
\* with and without separators, and characters that are no such digit
MacPieces ==
  {<< "0", "0", ":", "1", "a", ":", "2", "B" >>,
   << "0", "a", "1", "b", "2", "c" >>,
   << "3", "C" >>,
   << "d" >>,
   << ":" >>,
   << "z", "g", "-" >>,
   << "A", "1", "-", "b", "2", "-", "C", "3", "-", "d", "4", "-", "E", "5",
      "-", "f", "6" >>}

\* the pieces of q one after the other
RECURSIVE Concat(_)
Concat(q) == IF Len(q) = 0 THEN << >> ELSE Head(q) \o Concat(Tail(q))

InitNormalizeMAC ==
  /\ HandlerIdle
  /\ unitIn \in {Concat(q) : q \in SeqsUpTo(MacPieces, MaxPieces)}
  /\ unitOut = NotCalled

\* p.normalizeMAC(raw.MAC)
CallNormalizeMAC ==
  /\ unitOut.status = "none"
  /\ unitOut' = Returned(normalizeMAC(unitIn), ErrNil)
  /\ UNCHANGED << unitIn, parserIn, parserOut, handlerVars >>

NextNormalizeMAC == CallNormalizeMAC

SpecNormalizeMAC == InitNormalizeMAC /\ [][NextNormalizeMAC]_vars

\* the wall clock of the first call of Filter, and one hour later
FilterNow == [day |-> AbsDay(2026, 1, 1), sec |-> 0]

FilterLater == [day |-> AbsDay(2026, 1, 1), sec |-> 3600]

\* one model.Player as Filter and ByStoreNumber read it
Player(tags, groupName, companyName, lastOnline, store) ==
  [Number |-> 0, ID |-> 0, GroupName |-> groupName, Tags |-> tags,
   TimeZoneDiff |-> 3, LastOnline |-> lastOnline, MAC |-> << >>,
   StoreNumber |-> store, CompanyName |-> companyName]

\* instants a player was last seen, by the time to FilterNow: two days, a
\* day and a second, a day, a day less a second, and a day and half an hour
\* ahead
SeenSamples ==
  {[day |-> FilterNow.day - 2, sec |-> 0],
   [day |-> FilterNow.day - 2, sec |-> 86399],
   [day |-> FilterNow.day - 1, sec |-> 0],
   [day |-> FilterNow.day - 1, sec |-> 1],
   [day |-> FilterNow.day + 1, sec |-> 1800]}

\* the players handed to Filter: one that every rule of SampleData lets
\* through, the same with one field changed, and two that meet two rules
PlayerSamples ==
  {Player(<< >>, << "h" >>, << "A" >>, seen, 1) : seen \in SeenSamples}
    \cup {Player(tags, << "h" >>, << "A" >>, [day |-> FilterNow.day - 2, sec |-> 0], 1) :
           tags \in {<< << "t" >> >>, << << "x" >>, << "t" >> >>, << << "x" >> >>}}
    \cup {Player(<< >>, g, << "A" >>, [day |-> FilterNow.day - 2, sec |-> 0], 1) :
           g \in {<< "g" >>, << "g", "/", "x" >>, << "x", "/", "g" >>, << >>}}
    \cup {Player(<< >>, << "h" >>, co, [day |-> FilterNow.day - 2, sec |-> 0], 1) :
           co \in {<< >>, << "B" >>}}
    \cup {Player(<< << "t" >> >>, << "g" >>, << "A" >>, [day |-> FilterNow.day - 2, sec |-> 0], 1),
          Player(<< >>, << "h" >>, << "B" >>, [day |-> FilterNow.day - 1, sec |-> 0], 1)}

\* the players of q with Number set to the position
NumberedPlayers(q) == [i \in 1..Len(q) |-> [q[i] EXCEPT !.Number = i]]

\* the criteria of SampleData, the same with no allowed company, the same
\* with a whole path as the ignored group, and the same with two ignored
\* groups, two ignored tags and two allowed companies
CriteriaSamples ==
  {CriteriaOf(SampleData),
   [CriteriaOf(SampleData) EXCEPT !.allowedCompanies = << >>],
   [CriteriaOf(SampleData) EXCEPT !.ignoredGroups = << << "g", "/", "x" >> >>],
   [CriteriaOf(SampleData) EXCEPT !.ignoredGroups = << << "x" >>, << "g" >> >>,
                                  !.ignoredTags = << << "t" >>, << "x" >> >>,
                                  !.allowedCompanies = << << "B" >>, << "A" >> >>]}

InitFilter ==
  /\ HandlerIdle
  /\ unitIn \in [players : {NumberedPlayers(q) : q \in SeqsUpTo(PlayerSamples, MaxPlayers)},
                  c       : CriteriaSamples,
                  now     : {FilterNow},
                  later   : {FilterNow, FilterLater}]
  /\ unitOut = NotCalled

\* filterCriteria.Filter(players)
CallFilter ==
  /\ unitOut.status = "none"
  /\ unitOut' = Returned(Filter(unitIn.players, unitIn.c, unitIn.now), ErrNil)
  /\ UNCHANGED << unitIn, parserIn, parserOut, handlerVars >>

\* filterCriteria.Filter on what the first call returned, at the later
\* instant: first is the result of the first call, val of the second
CallFilterAgain ==
  /\ unitOut.status = "ok"
  /\ unitOut' = [status |-> "again",
                 first  |-> unitOut.val,
                 val    |-> Filter(unitOut.val, unitIn.c, unitIn.later),
                 err    |-> ErrNil]
  /\ UNCHANGED << unitIn, parserIn, parserOut, handlerVars >>

NextFilter == CallFilter \/ CallFilterAgain

SpecFilter == InitFilter /\ [][NextFilter]_vars

\* the players handed to ByStoreNumber: two of no store, of store 1 and of
\* store 2 each
GroupedSamples ==
  {[Player(<< >>, << "h" >>, << "A" >>, [day |-> FilterNow.day - 2, sec |-> 0], store)
      EXCEPT !.Number = n] : n \in {1, 2}, store \in {0, 1, 2}}

InitByStoreNumber ==
  /\ HandlerIdle
  /\ unitIn \in SeqsUpTo(GroupedSamples, MaxGrouped)
  /\ unitOut = NotCalled

\* clusterProcessor.ByStoreNumber(players)
CallByStoreNumber ==
  /\ unitOut.status = "none"
  /\ unitOut' = Returned(ByStoreNumber(unitIn), ErrNil)
  /\ UNCHANGED << unitIn, parserIn, parserOut, handlerVars >>

NextByStoreNumber == CallByStoreNumber

SpecByStoreNumber == InitByStoreNumber /\ [][NextByStoreNumber]_vars

(***************************************************************************)
(* mailByCluster on its own: Handler has grouped the players and calls it. *)
(* The scheduler runs every goroutine that can run and every call of Send  *)
(* returns.                                                                *)
(***************************************************************************)
\* the groups are built from up to MaxRecords players of the stores 0, 1 and
\* 2, given in store order (the order across stores does not change a group)
InitDispatch ==
  /\ pc = "mailByCluster"
  /\ cfg \in Configs
  /\ sharedLoopVar \in BOOLEAN
  /\ expired = FALSE
  /\ env = [loader |-> TRUE, mailer |-> TRUE, fetched |-> FALSE, do |-> NoDo]
  /\ dataRes = NotCalled
  /\ players \in
       {NumberedPlayers(q) :
          q \in SeqsUpTo({Player(<< >>, << "h" >>, << "A" >>,
                                 [day |-> FilterNow.day - 2, sec |-> 0], store) :
                            store \in {0, 1, 2}},
                         MaxRecords)}
  /\ \A i \in 1..(Len(players) - 1) :
       players[i].StoreNumber <= players[i + 1].StoreNumber
  /\ allPlayers = players
  /\ clusters = ByStoreNumber(players)
  /\ response = NoResponse
  /\ sem = 0
  /\ wg = 0
  /\ pending = {}
  /\ storeNumber = 0
  /\ clusterPlayers = << >>
  /\ task = [k \in {} |-> NoTask]
  /\ parserIn = NilBody
  /\ parserOut = NotCalled
  /\ unitIn = << >>
  /\ unitOut = NotCalled

SpecDispatch == InitDispatch /\ [][DispatchStep]_vars /\ WF_vars(DispatchStep)

(***************************************************************************)
(* initPlayer on its own, with the loop of parseTags a tag at a time.      *)
(***************************************************************************)
\* the tags joined with commas, as the upstream writes the field
RECURSIVE JoinComma(_)
JoinComma(q) ==
  IF Len(q) = 0 THEN << >>
  ELSE IF Len(q) = 1 THEN q[1]
  ELSE q[1] \o << "," >> \o JoinComma(Tail(q))

\* cfg.Data with prefixes of which one is empty or starts with the other,
\* and with 0 as the test store
PrefixData ==
  {SampleData,
   OverlapData,
   [SampleData EXCEPT !.StoreNumberPrefix = << >>],
   [SampleData EXCEPT !.CompanyNamePrefix = << >>],
   [SampleData EXCEPT !.StoreNumberPrefix = << "C", "S" >>],
   [SampleData EXCEPT !.StoreTestNumber = 0]}

\* tags of the raw records: a store, the test stores, a store tag without a
\* number, company tags, tags that match two prefixes, a bare number
RawTagSamples ==
  {<< "S", "1" >>, << "S", "9" >>, << "S", "0" >>, << "S", "x" >>, << "S" >>,
   << "C", "a" >>, << "C", "b" >>, << "S", "C", "a" >>, << "C", "S", "2" >>,
   << "2" >>}

InitInitPlayer ==
  /\ HandlerIdle
  /\ unitIn \in
       [raw  : {PlayerReceive(1, << "7" >>, << "h" >>, JoinComma(q), << "3" >>,
                              StampOld, << >>) :
                  q \in SeqsUpTo(RawTagSamples, MaxTags)}
                \cup {PlayerReceive(1, id, << "h" >>, << "S", "x", ",", "C", "a" >>,
                                    tz, stamp, << >>) :
                        id \in IDSamples, tz \in TZSamples, stamp \in StampSamples},
        data : PrefixData]
  /\ unitOut = NotCalled

\* initPlayer up to p.parseTags(player): the fields are converted and the
\* player is built with StoreNumber 0 and CompanyName ""
InitPlayerBegin ==
  /\ unitOut.status = "none"
  /\ unitOut' =
       IF initPlayerErr(unitIn.raw) # ErrNil
       THEN Returned(<< >>, initPlayerErr(unitIn.raw))
       ELSE [status |-> "parseTags",
             val    |-> [initPlayerValue(unitIn.raw, ParserOf(unitIn.data))
                           EXCEPT !.StoreNumber = 0, !.CompanyName = << >>],
             err    |-> ErrNil,
             i      |-> 1]
  /\ UNCHANGED << unitIn, parserIn, parserOut, handlerVars >>

\* one iteration of for _, tag := range player.Tags
ParseTagStep ==
  /\ unitOut.status = "parseTags"
  /\ unitOut.i <= Len(unitOut.val.Tags)
  /\ LET r == parseTag(unitOut.val.Tags[unitOut.i], unitOut.val.StoreNumber,
                       unitOut.val.CompanyName, ParserOf(unitIn.data))
     IN  unitOut' = [unitOut EXCEPT !.val.StoreNumber = r.StoreNumber,
                                    !.val.CompanyName = r.CompanyName,
                                    !.i = @ + 1]
  /\ UNCHANGED << unitIn, parserIn, parserOut, handlerVars >>

\* the range is over: return player, nil
InitPlayerReturn ==
  /\ unitOut.status = "parseTags"
  /\ unitOut.i > Len(unitOut.val.Tags)
  /\ unitOut' = Returned(unitOut.val, ErrNil)
  /\ UNCHANGED << unitIn, parserIn, parserOut, handlerVars >>

NextInitPlayer == InitPlayerBegin \/ ParseTagStep \/ InitPlayerReturn

SpecInitPlayer == InitInitPlayer /\ [][NextInitPlayer]_vars

(***************************************************************************)
(* Properties of the dispatch (mailByCluster) and of Handler.              *)
(***************************************************************************)
\* the keys whose goroutine is inside m.Send
Sending == {k \in DOMAIN task : task[k].pc = "sending"}

\* mailByCluster has returned to Handler
DispatchReturned ==
  pc = "respond" \/ (pc = "returned" /\ response.StatusCode = StatusOK)

\* the number of calls Send(key, _) made so far
SendCallsFor(key) ==
  Cardinality({kc \in (DOMAIN task) \X (1..Cardinality(DOMAIN task)) :
                 kc[2] <= task[kc[1]].calls /\ task[kc[1]].s = key})

\* C1: with maxGoroutines >= 1, the number of Send calls that have started
\* and not returned never exceeds maxGoroutines.
C1_ConcurrencyBound ==
  cfg.App.MaxGoroutines >= 1 => Cardinality(Sending) <= cfg.App.MaxGoroutines

\* C1 witness: the gate is saturated, every permit is held by a running Send,
\* and the loop waits with a further group
C1_Witness ==
  /\ cfg.App.MaxGoroutines >= 1
  /\ pc = "acquire"
  /\ sem = cfg.App.MaxGoroutines
  /\ Cardinality(Sending) = cfg.App.MaxGoroutines

\* C2: whenever Send(s, r) is called, s is a key of the group map and r is
\* the sequence stored under s.
C2_SendPairsOwnGroup ==
  \A k \in DOMAIN task :
    task[k].calls > 0 =>
      task[k].s \in DOMAIN clusters /\ task[k].r = clusters[task[k].s]

\* C3: by the time mailByCluster returns, Send has been called exactly once
\* for each key of the group map.
C3_OneSendPerKey ==
  DispatchReturned => \A key \in DOMAIN clusters : SendCallsFor(key) = 1

\* C4: mailByCluster has returned only if the goroutine of every group has
\* completed: none is unlaunched, waiting to call Send, or inside Send.
C4_JoinBeforeReturn ==
  DispatchReturned =>
    \A k \in DOMAIN clusters : k \in DOMAIN task /\ task[k].pc = "done"

\* C4 witness: mailByCluster returns after notifying two groups or more
C4_Witness ==
  /\ pc = "respond"
  /\ Cardinality(DOMAIN clusters) >= 2
  /\ \A k \in DOMAIN clusters : task[k].calls = 1

\* some goroutine's Send has returned an error
SomeSendFailed == \E k \in DOMAIN task : task[k].err # ErrNil

\* C5 (state part): a run in which some Send failed ends with status 200 and
\* a nil error, Send invoked once with the records of every group, every
\* permit released and every goroutine joined.
C5_IsolatedAtReturn ==
  (pc = "returned" /\ SomeSendFailed) =>
    /\ response = [StatusCode |-> StatusOK, err |-> ErrNil]
    /\ \A k \in DOMAIN clusters : task[k].calls = 1 /\ task[k].r = clusters[k]
    /\ sem = 0
    /\ wg = 0

\* C5: when Send fails for some groups, Send is still invoked with the
\* records of every group, every permit is released (the failing goroutine's
\* too), and Handler goes on to return status 200 with a nil error.
C5_FailureIsolated ==
  /\ []C5_IsolatedAtReturn
  /\ SomeSendFailed ~> (pc = "returned" /\ response.StatusCode = StatusOK)

\* C5 witness: Handler has returned after one Send failed and another succeeded
C5_Witness ==
  /\ pc = "returned"
  /\ \E k \in DOMAIN task : task[k].err # ErrNil
  /\ \E k \in DOMAIN task : task[k].pc = "done" /\ task[k].err = ErrNil

\* C6: once the deadline has expired, no notification attempt that has not
\* started is started.
C6_NoStartAfterDeadline == [][expired => Sending' \subseteq Sending]_vars

\* the request could not be built or sent, the status is not 200, or the
\* body could not be read
FetchFailed(do) == do.reqErr \/ do.err \/ do.status # StatusOK \/ do.readErr

\* the payload is not a well-formed JSON array of records
TopLevelMalformed(body) ==
  \/ body.kind \in {"invalid", "scalar"}
  \/ \E i \in 1..Len(body.elems) : body.elems[i].k = "mistyped"

\* a fatal-to-run error has occurred in this run
Fatal ==
  \/ ~env.loader
  \/ ~env.mailer
  \/ env.fetched /\ FetchFailed(env.do)
  \/ env.fetched /\ ~FetchFailed(env.do) /\ TopLevelMalformed(env.do.body)

\* C7: a run in which the template loader, the mailer, the fetch or the
\* top-level parse failed ends with Handler returning status 500 and a
\* non-nil error, no Send having been made.
C7_FatalReturns500 ==
  (pc \in {"returned", "panicked"} /\ Fatal) =>
    /\ pc = "returned"
    /\ response.StatusCode = StatusInternalServerError
    /\ response.err # ErrNil
    /\ \A k \in DOMAIN task : task[k].calls = 0

\* C8: when Do returns a transport error and no response, or the status is
\* not 200, Data returns a nil body and a non-nil error.
C8_DataReturnsError ==
  (/\ env.fetched
   /\ ~env.do.reqErr
   /\ (env.do.err /\ env.do.respNil) \/ (~env.do.respNil /\ env.do.status # StatusOK)) =>
    /\ dataRes.status = "ok"
    /\ dataRes.val = NilBody
    /\ dataRes.err # ErrNil

(***************************************************************************)
(* Properties of parser.Players.                                           *)
(***************************************************************************)
\* the text is an optionally signed, non-empty run of decimal digits
IsIntegerText(str) ==
  \E n \in 1..Len(str) :
    /\ \A i \in (Len(str) - n + 1)..Len(str) : str[i] \in Digits
    /\ Len(str) - n \in {0, 1}
    /\ Len(str) - n = 1 => str[1] \in {"+", "-"}

\* the Number fields of the players Players returned
OutNumbers == {parserOut.val[j].Number : j \in 1..Len(parserOut.val)}

\* C9: Players fails only on a payload that is not a well-formed JSON array
\* of records, and on every JSON array of records or nulls it returns a nil
\* error.
C9_ArrayNeverFails ==
  parserOut.status # "none" =>
    /\ (parserOut.status = "ok" /\ parserOut.err # ErrNil)
         => (parserIn.kind # "array" \/ TopLevelMalformed(parserIn))
    /\ (parserIn.kind = "array" /\ ~TopLevelMalformed(parserIn))
         => (parserOut.status = "ok" /\ parserOut.err = ErrNil)

\* C10: a record whose identifier is non-empty and not an integer gets
\* ErrParseID and is absent from the output of rawToPlayers; every record of
\* the batch that parses is present.
C10_BadIdSkippedSiblingsKept ==
  (parserOut.status = "ok" /\ parserOut.err = ErrNil) =>
    \A i \in 1..Len(parserIn.elems) :
      LET raw == parserIn.elems[i].raw
      IN  /\ (Len(raw.ID) > 0 /\ ~IsIntegerText(raw.ID)) =>
               (initPlayerErr(raw) = ErrParseID /\ raw.Number \notin OutNumbers)
          /\ (initPlayerErr(raw) = ErrNil) => raw.Number \in OutNumbers

\* C10 witness: a batch whose first record has an unparsable identifier and
\* whose second record parses has been normalized
C10_Witness ==
  /\ parserOut.status = "ok"
  /\ Len(parserIn.elems) >= 2
  /\ Len(parserIn.elems[1].raw.ID) > 0
  /\ ~IsIntegerText(parserIn.elems[1].raw.ID)
  /\ initPlayerErr(parserIn.elems[2].raw) = ErrNil
  /\ OutNumbers = {2}

\* the number the digits s[a..b] spell
NumberAt(s, a, b) == DecimalFrom(SubSeq(s, a, b), 1, 0)

\* positions a..b of s exist and hold decimal digits
DigitsAt(s, a, b) == b <= Len(s) /\ \A i \in a..b : s[i] \in Digits

\* s starts with a calendar date written YYYY-MM-DD
DateWritten(s) ==
  /\ DigitsAt(s, 1, 4) /\ DigitsAt(s, 6, 7) /\ DigitsAt(s, 9, 10)
  /\ s[5] = "-" /\ s[8] = "-"
  /\ NumberAt(s, 6, 7) \in 1..12
  /\ NumberAt(s, 9, 10) \in 1..daysIn(NumberAt(s, 6, 7), NumberAt(s, 1, 4))

\* s[a..a+7] is a time of day written HH:MM:SS
TimeWritten(s, a) ==
  /\ DigitsAt(s, a, a + 1) /\ DigitsAt(s, a + 3, a + 4) /\ DigitsAt(s, a + 6, a + 7)
  /\ s[a + 2] = ":" /\ s[a + 5] = ":"
  /\ NumberAt(s, a, a + 1) < 24
  /\ NumberAt(s, a + 3, a + 4) < 60
  /\ NumberAt(s, a + 6, a + 7) < 60

\* the text is a date and time in the layout YYYY-MM-DD HH:MM:SS, no more
StrictLayout(s) ==
  Len(s) = 19 /\ DateWritten(s) /\ s[11] = " " /\ TimeWritten(s, 12)

\* the text is a date YYYY-MM-DD, one space or more, an hour of one or two
\* digits, :MM:SS, and possibly a fraction of a second (. or , and digits)
LenientLayout(s) ==
  /\ Len(s) >= 18
  /\ DateWritten(s)
  /\ \E a \in 11..Len(s), h \in {1, 2} :
       LET e == a + h + 6
       IN  /\ \A i \in 11..a : s[i] = " "
           /\ e <= Len(s)
           /\ DigitsAt(s, a + 1, a + h) /\ NumberAt(s, a + 1, a + h) < 24
           /\ s[a + h + 1] = ":"
           /\ DigitsAt(s, a + h + 2, a + h + 3)
           /\ NumberAt(s, a + h + 2, a + h + 3) < 60
           /\ s[a + h + 4] = ":"
           /\ DigitsAt(s, a + h + 5, e) /\ NumberAt(s, a + h + 5, e) < 60
           /\ \/ Len(s) = e
              \/ /\ Len(s) >= e + 2
                 /\ s[e + 1] \in {".", ","}
                 /\ DigitsAt(s, e + 2, Len(s))

\* the Number fields of the output of Players, in output order
OutNumberSeq == [j \in 1..Len(parserOut.val) |-> parserOut.val[j].Number]

\* the Number fields of the raw records of the body that the identifier,
\* timezone and last-seen rules admit, in input order
RECURSIVE AdmittedFrom(_, _)
AdmittedFrom(i, strict) ==
  IF i > Len(parserIn.elems) THEN << >>
  ELSE LET raw == parserIn.elems[i].raw
           ok  == /\ Len(raw.ID) = 0 \/ IsIntegerText(raw.ID)
                  /\ IsIntegerText(raw.TimeZoneDiff)
                  /\ IF strict THEN StrictLayout(raw.LastOnline)
                               ELSE LenientLayout(raw.LastOnline)
       IN  (IF ok THEN << raw.Number >> ELSE << >>) \o AdmittedFrom(i + 1, strict)

\* the error the first failing field of each record stands for
FieldErrors ==
  \A i \in 1..Len(parserIn.elems) :
    LET raw == parserIn.elems[i].raw
        idOK == Len(raw.ID) = 0 \/ IsIntegerText(raw.ID)
    IN  /\ (idOK /\ ~IsIntegerText(raw.TimeZoneDiff)) => initPlayerErr(raw) = ErrParseTZ
        /\ (idOK /\ IsIntegerText(raw.TimeZoneDiff) /\ ~LenientLayout(raw.LastOnline))
             => initPlayerErr(raw) = ErrParseLastOnline

\* C11 (as stated): the output of rawToPlayers is the subsequence, in input
\* order, of the raw records whose identifier is empty or an integer, whose
\* timezone is an integer and whose last-seen field is written exactly
\* YYYY-MM-DD HH:MM:SS.
C11_OutputIsStrictlyAdmitted ==
  (parserOut.status = "ok" /\ parserOut.err = ErrNil) =>
    OutNumberSeq = AdmittedFrom(1, TRUE)

\* C11 (amended): the output of rawToPlayers is the subsequence, in input
\* order, of the raw records whose identifier is empty or an integer, whose
\* timezone is an integer (else ErrParseTZ) and whose last-seen field
\* time.Parse accepts for the layout (else ErrParseLastOnline): the date, one
\* space or more, an hour of one or two digits, minutes, seconds and possibly
\* a fraction of a second.
C11_OutputIsAdmitted ==
  (parserOut.status = "ok" /\ parserOut.err = ErrNil) =>
    OutNumberSeq = AdmittedFrom(1, FALSE) /\ FieldErrors

\* C11 witness: a batch of a record with an empty timezone and a record with
\* a fractional second has been normalized to the second record alone
C11_Witness ==
  /\ parserOut.status = "ok"
  /\ Len(parserIn.elems) = 2
  /\ parserIn.elems[1].k = "obj" /\ parserIn.elems[2].k = "obj"
  /\ parserIn.elems[1].raw.TimeZoneDiff = << >>
  /\ Len(parserIn.elems[1].raw.ID) = 0
  /\ parserIn.elems[2].raw.LastOnline = StampFraction
  /\ OutNumberSeq = << 2 >>

(***************************************************************************)
(* Properties of parser.parseTags.                                         *)
(***************************************************************************)
\* the integer an optionally signed run of digits spells
SignedValue(str) ==
  IF str[1] = "-" THEN 0 - NumberAt(str, 2, Len(str))
  ELSE IF str[1] = "+" THEN NumberAt(str, 2, Len(str))
  ELSE NumberAt(str, 1, Len(str))

\* what follows the prefix in a tag that starts with it
Suffix(tag, prefix) == SubSeq(tag, Len(prefix) + 1, Len(tag))

\* tag i matches the store-number prefix and an integer follows
IsStoreTag(i) ==
  /\ HasPrefix(unitIn.tags[i], unitIn.data.StoreNumberPrefix)
  /\ IsIntegerText(Suffix(unitIn.tags[i], unitIn.data.StoreNumberPrefix))

\* the store number the first n tags stand for: the integer of the last
\* store tag among them, or, if that is the test store, what the tags before
\* it stand for; 0 without a store tag
RECURSIVE StoreNumberOf(_)
StoreNumberOf(n) ==
  IF n = 0 THEN 0
  ELSE IF ~IsStoreTag(n) THEN StoreNumberOf(n - 1)
  ELSE LET v == SignedValue(Suffix(unitIn.tags[n], unitIn.data.StoreNumberPrefix))
       IN  IF v = unitIn.data.StoreTestNumber THEN StoreNumberOf(n - 1) ELSE v

\* C12: the derived StoreNumber is the integer suffix of the last tag that
\* matches the store-number prefix, unless that suffix is the test-store
\* number, in which case StoreNumber keeps its prior value (0 if there was
\* no earlier match).
C12_StoreNumberLastMatch ==
  unitOut.status = "ok" =>
    unitOut.val.StoreNumber = StoreNumberOf(Len(unitIn.tags))

\* C12 witness: a store tag, another store tag and then the test store have
\* been parsed, and the second store tag decided
C12_Witness ==
  /\ unitOut.status = "ok"
  /\ unitIn.tags = << << "S", "1" >>, << "S", "2" >>, << "S", "9" >> >>
  /\ unitOut.val.StoreNumber = 2

\* tag i matches the company-name prefix with a remainder that is not empty
IsCompanyTag(i) ==
  /\ HasPrefix(unitIn.tags[i], unitIn.data.CompanyNamePrefix)
  /\ Len(unitIn.tags[i]) > Len(unitIn.data.CompanyNamePrefix)

\* tag i is a company tag that does not match the store-number prefix
IsCompanyOnlyTag(i) ==
  IsCompanyTag(i) /\ ~HasPrefix(unitIn.tags[i], unitIn.data.StoreNumberPrefix)

\* the company name a remainder stands for: its image in the companies
\* mapping if it has one, itself otherwise
CompanyFor(remainder) ==
  IF remainder \in DOMAIN unitIn.data.Companies
  THEN unitIn.data.Companies[remainder]
  ELSE remainder

\* the company name the last tag of the set stands for, "" for no tag
CompanyOfLast(tagged) ==
  IF tagged = {} THEN << >>
  ELSE LET last == CHOOSE i \in tagged : \A j \in tagged : j <= i
       IN  CompanyFor(Suffix(unitIn.tags[last], unitIn.data.CompanyNamePrefix))

\* C13 (as stated): CompanyName is what the last tag with the company-name
\* prefix and a non-empty remainder stands for: the mapped value of the
\* remainder if the companies mapping has it, the remainder itself otherwise.
C13_CompanyNameLastMatch ==
  unitOut.status = "ok" =>
    unitOut.val.CompanyName =
      CompanyOfLast({i \in 1..Len(unitIn.tags) : IsCompanyTag(i)})

\* C13 (amended): the same of the last tag with the company-name prefix and
\* a non-empty remainder that does not also match the store-number prefix.
C13_CompanyNameLastCompanyOnly ==
  unitOut.status = "ok" =>
    unitOut.val.CompanyName =
      CompanyOfLast({i \in 1..Len(unitIn.tags) : IsCompanyOnlyTag(i)})

\* C13 witness: a mapped company tag followed by an unmapped one has been
\* parsed, and the unmapped remainder is the company name
C13_Witness ==
  /\ unitOut.status = "ok"
  /\ unitIn.data = SampleData
  /\ unitIn.tags = << << "C", "a" >>, << "C", "b" >> >>
  /\ unitOut.val.CompanyName = << "b" >>

(***************************************************************************)
(* Properties of parser.normalizeMAC.                                      *)
(***************************************************************************)
\* the hexadecimal digits, each with its upper-case form
UpperForm ==
  [c \in Digits |-> c]
    @@ ("a" :> "A" @@ "b" :> "B" @@ "c" :> "C" @@ "d" :> "D" @@ "e" :> "E"
        @@ "f" :> "F")
    @@ ("A" :> "A" @@ "B" :> "B" @@ "C" :> "C" @@ "D" :> "D" @@ "E" :> "E"
        @@ "F" :> "F")

IsHexDigit(c) == c \in DOMAIN UpperForm

\* the hexadecimal digits of the input, in order
HexDigitsOf(str) == SelectSeq(str, IsHexDigit)

FirstResult == IF unitOut.status = "again" THEN unitOut.first ELSE unitOut.val

\* the positions in the input of the players the first call returned
Survivors == {FirstResult[j].Number : j \in 1..Len(FirstResult)}

\* the strings of a slice, as a set
Elements(slice) == {slice[i] : i \in 1..Len(slice)}

\* the group name up to its first slash
FirstSegment(groupName) ==
  LET slashes == {i \in 1..Len(groupName) : groupName[i] = "/"}
  IN  IF slashes = {} THEN groupName
      ELSE SubSeq(groupName, 1, (CHOOSE i \in slashes : \A k \in slashes : i <= k) - 1)

\* the seconds from the instant t to the instant now
ElapsedSeconds(t, now) == (now.day - t.day) * 86400 + (now.sec - t.sec)

\* a duration in seconds
InSeconds(d) == d.h * 3600 + d.s

\* the four rules of exclusion
TagRule(player, c) == Elements(player.Tags) \cap Elements(c.ignoredTags) # {}

GroupRule(player, c) == FirstSegment(player.GroupName) \in Elements(c.ignoredGroups)

CompanyRule(player, c) == player.CompanyName \notin Elements(c.allowedCompanies)

OfflineRule(player, c, now) ==
  ElapsedSeconds(player.LastOnline, now) <= InSeconds(c.maxOffline)

\* C15: a record is in the output of Filter if and only if none of the four
\* rules holds of it: ignored tag, ignored group, company not allowed,
\* offline for no longer than maxOffline.
C15_ExcludedIffAnyRule ==
  unitOut.status # "none" =>
    \A i \in 1..Len(unitIn.players) :
      LET player == unitIn.players[i]
      IN  i \in Survivors <=>
            ~(\/ OfflineRule(player, unitIn.c, unitIn.now)
              \/ CompanyRule(player, unitIn.c)
              \/ GroupRule(player, unitIn.c)
              \/ TagRule(player, unitIn.c))

\* C15 witness: of two players, one that no rule excludes and one that has
\* an ignored tag and an ignored group, Filter has returned the first
C15_Witness ==
  /\ unitOut.status = "ok"
  /\ Len(unitIn.players) = 2
  /\ TagRule(unitIn.players[2], unitIn.c) /\ GroupRule(unitIn.players[2], unitIn.c)
  /\ ~CompanyRule(unitIn.players[2], unitIn.c)
  /\ Survivors = {1}

\* C16: the output of Filter is a subsequence of its input in input order,
\* without repetition, and the error is nil.
C16_FilterSubsequence ==
  unitOut.status # "none" =>
    /\ unitOut.err = ErrNil
    /\ \A j \in 1..Len(FirstResult) :
         /\ FirstResult[j].Number \in 1..Len(unitIn.players)
         /\ FirstResult[j] = unitIn.players[FirstResult[j].Number]
    /\ \A j, k \in 1..Len(FirstResult) :
         j < k => FirstResult[j].Number < FirstResult[k].Number

\* C16 witness: both of two players have survived
C16_Witness ==
  /\ unitOut.status = "ok"
  /\ Len(unitIn.players) = 2
  /\ Len(unitOut.val) = 2

\* C17: a record offline for maxOffline or less, equality included, is not
\* in the output of Filter.
C17_OfflineBoundaryExcluded ==
  unitOut.status # "none" =>
    \A i \in 1..Len(unitIn.players) :
      ElapsedSeconds(unitIn.players[i].LastOnline, unitIn.now)
          <= InSeconds(unitIn.c.maxOffline)
        => i \notin Survivors

\* C17 witness: of two players that differ in LastOnline alone, the one
\* offline for exactly maxOffline is excluded and the one offline a second
\* longer survives
C17_Witness ==
  /\ unitOut.status = "ok"
  /\ Len(unitIn.players) = 2
  /\ ElapsedSeconds(unitIn.players[1].LastOnline, unitIn.now)
       = InSeconds(unitIn.c.maxOffline)
  /\ ElapsedSeconds(unitIn.players[2].LastOnline, unitIn.now)
       = InSeconds(unitIn.c.maxOffline) + 1
  /\ Survivors = {2}

\* C18: with no allowed company, the output of Filter is empty.
C18_NoAllowedCompanyNoOutput ==
  (unitOut.status # "none" /\ Len(unitIn.c.allowedCompanies) = 0) =>
    FirstResult = << >>

\* C18 witness: with no allowed company, a player without company name and
\* a player that the other rules let through have been filtered out
C18_Witness ==
  /\ unitOut.status = "ok"
  /\ Len(unitIn.c.allowedCompanies) = 0
  /\ Len(unitIn.players) = 2
  /\ unitIn.players[1].CompanyName = << >>
  /\ ~TagRule(unitIn.players[2], unitIn.c)
  /\ ~GroupRule(unitIn.players[2], unitIn.c)
  /\ ~OfflineRule(unitIn.players[2], unitIn.c, unitIn.now)
  /\ unitOut.val = << >>

\* C19: Filter applied to the output of Filter, with the same criteria and
\* at the same or a later instant, returns that output.
C19_FilterIdempotent ==
  unitOut.status = "again" => unitOut.val = unitOut.first

\* C19 witness: an hour later, Filter has been applied to what it returned
\* for two players, one of which it had excluded
C19_Witness ==
  /\ unitOut.status = "again"
  /\ unitIn.later = FilterLater
  /\ Len(unitIn.players) = 2
  /\ Len(unitOut.first) = 1
  /\ unitOut.val = unitOut.first

(***************************************************************************)
(* Properties of cluster.ByStoreNumber.                                    *)
(***************************************************************************)
\* how many times the record occurs in the sequence
Occurrences(q, record) == Cardinality({i \in 1..Len(q) : q[i] = record})

\* the records of the input and of the groups
GroupedRecords ==
  Elements(unitIn)
    \cup UNION {Elements(unitOut.val[key]) : key \in DOMAIN unitOut.val}

\* C20: every input record is in the group of its own StoreNumber as many
\* times as in the input and in no other group, and the groups hold no
\* record that the input does not.
C20_GroupsPartitionInput ==
  unitOut.status = "ok" =>
    \A record \in GroupedRecords :
      /\ record \in Elements(unitIn)
      /\ record.StoreNumber \in DOMAIN unitOut.val
      /\ \A key \in DOMAIN unitOut.val :
           Occurrences(unitOut.val[key], record) =
             IF key = record.StoreNumber THEN Occurrences(unitIn, record) ELSE 0

\* C20 witness: a player without store, given twice, and a player of store
\* 2 have been grouped under the keys 0 and 2
C20_Witness ==
  /\ unitOut.status = "ok"
  /\ Len(unitIn) = 3
  /\ unitIn[1] = unitIn[3]
  /\ unitIn[1].StoreNumber = 0
  /\ unitIn[2].StoreNumber = 2
  /\ DOMAIN unitOut.val = {0, 2}
  /\ Len(unitOut.val[0]) = 2

\* the input restricted to the records of one store number
RestrictedTo(q, key) == SelectSeq(q, LAMBDA record : record.StoreNumber = key)

\* C21: every group is the input sequence restricted to the records of the
\* group's store number, so the records of a group are in input order.
C21_GroupKeepsInputOrder ==
  unitOut.status = "ok" =>
    \A key \in DOMAIN unitOut.val :
      unitOut.val[key] = RestrictedTo(unitIn, key)

\* C21 witness: two different players of store 1, with a player of store 2
\* between them in the input, are grouped in input order
C21_Witness ==
  /\ unitOut.status = "ok"
  /\ Len(unitIn) = 3
  /\ unitIn[1].StoreNumber = 1
  /\ unitIn[2].StoreNumber = 2
  /\ unitIn[3].StoreNumber = 1
  /\ unitIn[1] # unitIn[3]
  /\ unitOut.val[1] = << unitIn[1], unitIn[3] >>

(***************************************************************************)
(* Properties of the failure record of mailByCluster.                      *)
(***************************************************************************)
\* the goroutines whose Send failed and that have written their error log
FailureLogged ==
  {k \in DOMAIN task :
     task[k].err = ErrSend /\ task[k].pc \in {"release", "wg.Done", "done"}}

\* C22: the failure a goroutine records names the store identifier of its
\* own group, the one whose Send failed, and the number of records of that
\* group.
C22_FailureNamesOwnGroup ==
  \A k \in FailureLogged :
    /\ task[k].logCluster = k
    /\ task[k].logPlayers = Len(clusters[k])

(***************************************************************************)
(* Properties of initPlayer and of the tags it interprets.                 *)
(***************************************************************************)
\* the tag parseTags is about to interpret
TagAtHand == unitOut.val.Tags[unitOut.i]

\* parseTags is at a tag
AtTag == unitOut.status = "parseTags" /\ unitOut.i <= Len(unitOut.val.Tags)

\* the tag starts with the store-number prefix and what follows is empty or
\* no integer
StoreTagWithoutNumber(tag) ==
  /\ HasPrefix(tag, unitIn.data.StoreNumberPrefix)
  /\ ~IsIntegerText(Suffix(tag, unitIn.data.StoreNumberPrefix))

\* the identifier, timezone and last-seen fields of the raw record parse
FieldsParse ==
  /\ Len(unitIn.raw.ID) = 0 \/ IsIntegerText(unitIn.raw.ID)
  /\ IsIntegerText(unitIn.raw.TimeZoneDiff)
  /\ LenientLayout(unitIn.raw.LastOnline)

\* the tags of the raw record
RawTags == IF Len(unitIn.raw.Tags) = 0 THEN << >> ELSE Split(unitIn.raw.Tags, ",")

\* C23: interpreting a store-number tag whose remainder is empty or not an
\* integer changes nothing of the player, neither StoreNumber nor
\* CompanyName, and parseTags goes on to the next tag; a record with such a
\* tag whose identifier, timezone and last-seen fields parse is returned
\* without error.
C23_StoreTagWithoutNumberSkipped ==
  /\ [][(AtTag /\ StoreTagWithoutNumber(TagAtHand))
          => unitOut' = [unitOut EXCEPT !.i = @ + 1]]_vars
  /\ []((/\ unitOut.status = "ok"
         /\ FieldsParse
         /\ \E j \in 1..Len(RawTags) : StoreTagWithoutNumber(RawTags[j]))
          => (unitOut.err = ErrNil /\ unitOut.val.Tags = RawTags))

\* C23 witness: a store tag without a number has been passed after a store
\* and a company had been assigned, and both are still there
C23_Witness ==
  /\ unitOut.status = "parseTags"
  /\ unitIn.data = SampleData
  /\ unitOut.val.Tags = << << "S", "1" >>, << "C", "a" >>, << "S", "x" >> >>
  /\ unitOut.i = 4
  /\ unitOut.val.StoreNumber = 1
  /\ unitOut.val.CompanyName = << "A" >>

\* C24: initPlayer does not fail on a raw record with an empty identifier
\* whose timezone and last-seen fields parse: it returns the player, with
\* ID 0.
C24_EmptyIdIsZero ==
  (/\ unitOut.status \in {"parseTags", "ok"}
   /\ Len(unitIn.raw.ID) = 0
   /\ IsIntegerText(unitIn.raw.TimeZoneDiff)
   /\ LenientLayout(unitIn.raw.LastOnline))
    => /\ unitOut.err = ErrNil
       /\ unitOut.val.Number = unitIn.raw.Number
       /\ unitOut.val.ID = 0

\* C24 witness: initPlayer has returned a player with ID 0 for a record
\* without identifier, seen at a fraction of a second
C24_Witness ==
  /\ unitOut.status = "ok"
  /\ Len(unitIn.raw.ID) = 0
  /\ unitIn.raw.LastOnline = StampFraction
  /\ unitOut.err = ErrNil
  /\ unitOut.val.ID = 0
  /\ unitOut.val.TimeZoneDiff = 3

\* the tag starts with the store-number prefix and with the company-name
\* prefix
MatchesBothPrefixes(tag) ==
  /\ HasPrefix(tag, unitIn.data.StoreNumberPrefix)
  /\ HasPrefix(tag, unitIn.data.CompanyNamePrefix)

\* the store number after a store-number tag, from the one before it
StoreAfter(tag, before) ==
  LET remainder == Suffix(tag, unitIn.data.StoreNumberPrefix)
  IN  IF IsIntegerText(remainder)
           /\ SignedValue(remainder) # unitIn.data.StoreTestNumber
      THEN SignedValue(remainder)
      ELSE before

\* C28: a tag that matches both prefixes is interpreted as a store-number
\* tag only: the step over it leaves CompanyName as it was and sets
\* StoreNumber as a store-number tag does; with an empty store-number prefix
\* CompanyName is never set.
C28_BothPrefixesStoreOnly ==
  /\ [][(AtTag /\ MatchesBothPrefixes(TagAtHand))
          => unitOut' = [unitOut EXCEPT !.i = @ + 1,
                                        !.val.StoreNumber = StoreAfter(TagAtHand, @)]]_vars
  /\ []((/\ Len(unitIn.data.StoreNumberPrefix) = 0
         /\ unitOut.status \in {"parseTags", "ok"}
         /\ unitOut.err = ErrNil)
          => Len(unitOut.val.CompanyName) = 0)

\* C28 witness: with the prefixes "CS" and "C", the tag "CS2" that follows
\* the company tag "Ca" has set the store and left the company
C28_Witness ==
  /\ unitOut.status = "parseTags"
  /\ unitIn.data.StoreNumberPrefix = << "C", "S" >>
  /\ unitIn.data.CompanyNamePrefix = << "C" >>
  /\ unitOut.val.Tags = << << "C", "a" >>, << "C", "S", "2" >> >>
  /\ unitOut.i = 3
  /\ unitOut.val.StoreNumber = 2
  /\ unitOut.val.CompanyName = << "A" >>

\* with an empty store-number prefix, the company tag "Ca" has been passed
\* and the player has no company
C28_EmptyStorePrefix ==
  /\ unitOut.status = "ok"
  /\ unitOut.err = ErrNil
  /\ Len(unitIn.data.StoreNumberPrefix) = 0
  /\ unitOut.val.Tags = << << "C", "a" >>, << "2" >> >>
  /\ unitOut.val.StoreNumber = 2
  /\ Len(unitOut.val.CompanyName) = 0

(***************************************************************************)
(* The ignored-groups rule of criteria.isIgnored.                          *)
(***************************************************************************)
\* an ignored group is the whole group name or what precedes its first slash
IgnoredBySegment(groupName, c) ==
  \E e \in Elements(c.ignoredGroups) :
    /\ \A i \in 1..Len(e) : e[i] # "/"
    /\ groupName = e \/ HasPrefix(groupName, e \o << "/" >>)

\* C25: of the players no other rule excludes, Filter drops exactly those
\* whose group name, or whose group name up to its first slash, is an
\* ignored group; an ignored group that equals a whole path with a slash, or
\* a later segment of it, excludes nobody.
C25_GroupRuleFirstSegment ==
  unitOut.status # "none" =>
    \A i \in 1..Len(unitIn.players) :
      LET player == unitIn.players[i]
      IN  ~(\/ TagRule(player, unitIn.c)
            \/ CompanyRule(player, unitIn.c)
            \/ OfflineRule(player, unitIn.c, unitIn.now))
            => (i \notin Survivors <=> IgnoredBySegment(player.GroupName, unitIn.c))

\* C25 witness: with "g" ignored, the player of group "g/x" has been dropped
\* and the player of group "x/g" kept
C25_Witness ==
  /\ unitOut.status = "ok"
  /\ unitIn.c.ignoredGroups = << << "g" >> >>
  /\ Len(unitIn.players) = 2
  /\ unitIn.players[1].GroupName = << "g", "/", "x" >>
  /\ unitIn.players[2].GroupName = << "x", "/", "g" >>
  /\ Survivors = {2}

\* with the path "g/x" ignored, the players of the groups "g/x" and "g" have
\* both been kept
C25_WholePathKept ==
  /\ unitOut.status = "ok"
  /\ unitIn.c.ignoredGroups = << << "g", "/", "x" >> >>
  /\ Len(unitIn.players) = 2
  /\ unitIn.players[1].GroupName = << "g", "/", "x" >>
  /\ unitIn.players[2].GroupName = << "g" >>
  /\ Survivors = {1, 2}

(***************************************************************************)
(* Termination of mailByCluster, every Send returning (SpecDispatch).      *)
(***************************************************************************)
\* Handler is about to call mailByCluster
DispatchCalled == pc = "mailByCluster"

\* the loop of mailByCluster waits at its first sem <- struct{}{}, no
\* goroutine launched
BlockedAtFirstPermit ==
  /\ pc = "acquire"
  /\ Cardinality(pending) = Cardinality(DOMAIN clusters) - 1
  /\ \A k \in DOMAIN task : task[k].pc = "none" /\ task[k].calls = 0

\* with maxGoroutines = 0 and a group, mailByCluster comes to wait at its
\* first permit for ever, and neither returns nor calls Send
BlocksForever ==
  /\ [](cfg.App.MaxGoroutines = 0 /\ DOMAIN clusters # {}
          => ~DispatchReturned /\ \A k \in DOMAIN task : task[k].calls = 0)
  /\ [](DispatchCalled /\ cfg.App.MaxGoroutines = 0 /\ DOMAIN clusters # {}
          => <>[]BlockedAtFirstPermit)

\* C26 as claimed: mailByCluster returns if maxGoroutines >= 1 or there is
\* no group, and only then; with maxGoroutines = 0 and a group it blocks for
\* ever at the first permit without calling Send.
C26_ReturnsIffPermitOrNoGroup ==
  /\ (DispatchCalled /\ (cfg.App.MaxGoroutines >= 1 \/ DOMAIN clusters = {}))
       ~> DispatchReturned
  /\ [](DispatchReturned => (cfg.App.MaxGoroutines >= 1 \/ DOMAIN clusters = {}))
  /\ BlocksForever

\* C26 for the sizes make(chan struct{}, maxGoroutines) accepts: with
\* maxGoroutines >= 0, mailByCluster returns if maxGoroutines >= 1 or there
\* is no group, and only then; with maxGoroutines = 0 and a group it blocks
\* for ever at the first permit without calling Send.
C26_ReturnsIffPermitOrNoGroupFromZero ==
  /\ (/\ DispatchCalled
      /\ cfg.App.MaxGoroutines >= 0
      /\ (cfg.App.MaxGoroutines >= 1 \/ DOMAIN clusters = {}))
       ~> DispatchReturned
  /\ [](DispatchReturned => (cfg.App.MaxGoroutines >= 1 \/ DOMAIN clusters = {}))
  /\ BlocksForever

\* C26 witness: with maxGoroutines = 0 and two groups the loop waits at the
\* permit of the first
C26_Witness ==
  /\ cfg.App.MaxGoroutines = 0
  /\ Cardinality(DOMAIN clusters) = 2
  /\ BlockedAtFirstPermit

\* with maxGoroutines = 1 and two groups mailByCluster has returned
C26_ReturnedWithOnePermit ==
  /\ cfg.App.MaxGoroutines = 1
  /\ Cardinality(DOMAIN clusters) = 2
  /\ DispatchReturned

(***************************************************************************)
(* The test store, from the tags to the notification.                      *)
(***************************************************************************)
\* the tag carries the test-store number behind the store-number prefix
IsTestStoreTag(tag, data) ==
  /\ HasPrefix(tag, data.StoreNumberPrefix)
  /\ IsIntegerText(Suffix(tag, data.StoreNumberPrefix))
  /\ SignedValue(Suffix(tag, data.StoreNumberPrefix)) = data.StoreTestNumber

\* the player has a tag of the test store and no other tag with the
\* store-number prefix
TaggedOnlyWithTestStore(player, data) ==
  /\ \E i \in 1..Len(player.Tags) : IsTestStoreTag(player.Tags[i], data)
  /\ \A i \in 1..Len(player.Tags) :
       HasPrefix(player.Tags[i], data.StoreNumberPrefix)
         => IsTestStoreTag(player.Tags[i], data)

\* no normalized player has the test store, unless the test store is 0, and
\* a player tagged only with the test store has StoreNumber 0
TestStoreNeverAssigned ==
  \A i \in 1..Len(allPlayers) :
    /\ cfg.Data.StoreTestNumber # 0
         => allPlayers[i].StoreNumber # cfg.Data.StoreTestNumber
    /\ TaggedOnlyWithTestStore(allPlayers[i], cfg.Data)
         => allPlayers[i].StoreNumber = 0

\* once the players are grouped, a filtered player tagged only with the test
\* store is in the group of key 0
TestStoreGroupedUnderZero ==
  (pc \in {"mailByCluster", "range", "acquire", "wg.Wait", "respond"}
     \/ DispatchReturned) =>
    \A i \in 1..Len(players) :
      TaggedOnlyWithTestStore(players[i], cfg.Data)
        => 0 \in DOMAIN clusters /\ players[i] \in Elements(clusters[0])

\* a Send whose records hold a player tagged only with the test store is
\* called with the store identifier 0
TestStoreNotifiedUnderZero ==
  \A k \in DOMAIN task :
    (/\ task[k].calls > 0
     /\ \E i \in 1..Len(task[k].r) : TaggedOnlyWithTestStore(task[k].r[i], cfg.Data))
      => task[k].s = 0

\* C27: no normalized record has the test-store number as StoreNumber unless
\* that number is 0; a device tagged only with the test store has
\* StoreNumber 0, is grouped under key 0 and is notified under key 0.
C27_TestStoreUnderKeyZero ==
  /\ TestStoreNeverAssigned
  /\ TestStoreGroupedUnderZero
  /\ TestStoreNotifiedUnderZero

(***************************************************************************)
(* The groups of a run and the notifications made for them.                *)
(***************************************************************************)
\* Handler has grouped the filtered players and not left mailByCluster by a
\* panic
Grouped ==
  pc \in {"mailByCluster", "range", "acquire", "wg.Wait", "respond"}
    \/ DispatchReturned

\* the store numbers among the filtered players
FilteredStores == {players[i].StoreNumber : i \in 1..Len(players)}

\* the number of calls of Send made so far
TotalSendCalls ==
  Cardinality({kc \in (DOMAIN task) \X (1..(Cardinality(DOMAIN task) + 1)) :
                 kc[2] <= task[kc[1]].calls})

\* no group is empty and the keys are the store numbers of the filtered
\* players; when mailByCluster has returned, Send has been called as many
\* times as there are such store numbers; without filtered players the map
\* is empty and Send is not called
GroupsAndAttempts ==
  Grouped =>
    /\ DOMAIN clusters = FilteredStores
    /\ \A key \in DOMAIN clusters : Len(clusters[key]) > 0
    /\ DispatchReturned => TotalSendCalls = Cardinality(FilteredStores)
    /\ Len(players) = 0 => clusters = EmptyMap /\ TotalSendCalls = 0

\* Handler is between the grouping of no player and its return
EmptyRun ==
  Len(players) = 0 /\ pc \in {"mailByCluster", "range", "wg.Wait", "respond"}

\* Handler has returned status 200 and a nil error
Returned200 ==
  pc = "returned" /\ response = [StatusCode |-> StatusOK, err |-> ErrNil]

\* C29 as claimed: no group is empty, the keys are the store numbers of the
\* filtered players, a run makes as many notification attempts as there are
\* such store numbers, and a run without filtered players has an empty map,
\* calls Send never and can only go on to return 200.
C29_NoEmptyGroup ==
  /\ []GroupsAndAttempts
  /\ [][EmptyRun => (EmptyRun' \/ Returned200')]_vars

\* C29 for the sizes make(chan struct{}, maxGoroutines) accepts: as above,
\* the run without filtered players going on to return 200 when
\* maxGoroutines >= 0.
C29_NoEmptyGroupFromZero ==
  /\ []GroupsAndAttempts
  /\ [][(EmptyRun /\ cfg.App.MaxGoroutines >= 0)
          => (EmptyRun' \/ Returned200')]_vars

\* C29 witness: two filtered players of two stores have been grouped under
\* two keys and, mailByCluster returned, notified by two calls of Send
C29_Witness ==
  /\ Returned200
  /\ Len(players) = 2
  /\ Cardinality(DOMAIN clusters) = 2
  /\ TotalSendCalls = 2

\* a run whose filter dropped the one player normalized has returned 200
\* without a group and without a call of Send
C29_EmptyRunReturned ==
  /\ Returned200
  /\ Len(allPlayers) = 1
  /\ Len(players) = 0
  /\ clusters = EmptyMap
  /\ TotalSendCalls = 0

====
